---- MODULE Spec2Model ----
(***************************************************************************)
(* Model of the Hytale protocol tooling: the VarInt codec and the packet   *)
(* decoder of hytale_protocol_decoder.py, the schema-driven packet builder *)
(* and mutation generator of fuzzer_integration.py, and the phase tracer   *)
(* of state_tracer.py.                                                     *)
(*                                                                         *)
(* Python values are modelled by tagged records.  A Python int is          *)
(* arbitrary-precision; it is kept as a sign and a little-endian sequence  *)
(* of 28-bit limbs, so that 2^32 - 1 and 2^64 are exact.                   *)
(***************************************************************************)
EXTENDS Integers, Sequences, FiniteSets, TLC

VARIABLES
    pc,            \* where the caller stands
    value,         \* VarInt.encode: the integer to encode
    data,          \* VarInt.decode: the buffer
    offset,        \* VarInt.decode: the offset
    encoded,       \* outcome of VarInt.encode
    decoded,       \* outcome of VarInt.decode
    packet_id,     \* build_packet: the packet identifier text
    field_values,  \* build_packet: the field-map
    packet,        \* outcome of build_packet
    packet_structures_file,  \* IntegratedFuzzer(...): what the file named holds
    packet_definitions,      \* outcome of _load_packet_definitions, or None before it
    raw_data,      \* HytalePacket.raw_data
    hp_packet_id,  \* HytalePacket.packet_id
    hp_payload,    \* HytalePacket.payload
    hp_result,     \* outcome of the last HytalePacket.parse or decode call
    analysis,      \* outcome of the last analyze_packet call
    mutations_generated,  \* IntegratedFuzzer.mutations_generated
    fuzz_packet_id,       \* fuzz_packet: the packet identifier text
    base_values,          \* fuzz_packet: the base field-map, or None
    mutations,            \* fuzz_packet: the list of mutation kinds, or None
    gen_field,            \* the generator: index of the field it is suspended at
    gen_mutation,         \* the generator: index of the mutation kind it is suspended at
    last_item,            \* the element the generator yielded last, or None
    yielded,              \* the (field, kind) pairs this generator has yielded
    total_yielded,        \* number of elements all generators have yielded
    fuzz_calls,           \* number of fuzz_packet calls made
    gen_field_values,     \* the generator: field_values of the element yielded last, or None
    base_values_before,   \* base_values as it was when fuzz_packet was called
    earlier_run,          \* what the preceding generator yielded to its end, when this
                          \* call has its arguments; None otherwise
    transitions,          \* StateTracer.transitions
    invalid_transitions,  \* StateTracer.invalid_transitions
    current_phase,        \* StateTracer.current_phase
    now,                  \* the clock of time.time(), in milliseconds
    tracer_result         \* the last call on the tracer and what it returned

varintVars == <<value, data, offset, encoded, decoded>>
builderVars == <<packet_id, field_values, packet, packet_structures_file, packet_definitions>>
packetVars == <<raw_data, hp_packet_id, hp_payload, hp_result>>
fuzzVars == <<mutations_generated, fuzz_packet_id, base_values, mutations, gen_field,
              gen_mutation, last_item, yielded, total_yielded, fuzz_calls, gen_field_values,
              base_values_before, earlier_run>>

tracerVars == <<transitions, invalid_transitions, current_phase, now, tracer_result>>

vars == <<pc, varintVars, builderVars, packetVars, fuzzVars, analysis, tracerVars>>

-----------------------------------------------------------------------------
(* Bounds of the model.                                                    *)

\* longest byte buffer handed to VarInt.decode
MaxBufLen == 6
\* integers within this distance of each 7-bit group boundary are encoded
ValueSpread == 2

-----------------------------------------------------------------------------
(* Python outcomes: a call returns a value, raises, or never returns.      *)

Return(v) == [st |-> "return", val |-> v]
Raise(e) == [st |-> "raise", exc |-> e]
Diverge == [st |-> "diverge"]
\* an operand outside the part of Python's arithmetic that is modelled
Unmodelled == [st |-> "unmodelled"]
None == [t |-> "None"]

-----------------------------------------------------------------------------
(* Python int: arbitrary precision.                                        *)

LimbBase == 2^28

RECURSIVE MagStrip(_)
MagStrip(mag) ==
    IF mag = <<>> THEN <<>>
    ELSE IF mag[Len(mag)] = 0 THEN MagStrip(SubSeq(mag, 1, Len(mag) - 1))
    ELSE mag

\* the int whose magnitude is hi * 2^28 + lo
PyIntParts(neg, hi, lo) == [t |-> "int", neg |-> neg, mag |-> MagStrip(<<lo, hi>>)]

PyInt(n) ==
    LET a == IF n < 0 THEN 0 - n ELSE n
    IN  PyIntParts(n < 0, a \div LimbBase, a % LimbBase)

PyZero == PyInt(0)

RECURSIVE BitAnd(_, _)
BitAnd(a, b) ==
    IF a = 0 \/ b = 0 THEN 0
    ELSE (IF a % 2 = 1 /\ b % 2 = 1 THEN 1 ELSE 0) + 2 * BitAnd(a \div 2, b \div 2)

RECURSIVE BitOr(_, _)
BitOr(a, b) ==
    IF a = 0 THEN b
    ELSE IF b = 0 THEN a
    ELSE (IF a % 2 = 1 \/ b % 2 = 1 THEN 1 ELSE 0) + 2 * BitOr(a \div 2, b \div 2)

RECURSIVE MagAddSmall(_, _)
MagAddSmall(mag, k) ==
    IF k = 0 THEN mag
    ELSE IF mag = <<>> THEN <<k>>
    ELSE LET s == mag[1] + k
         IN  <<s % LimbBase>> \o MagAddSmall(Tail(mag), s \div LimbBase)

MagShr7(mag) ==
    MagStrip([i \in 1..Len(mag) |->
        (mag[i] \div 128)
        + (IF i < Len(mag) THEN (mag[i + 1] % 128) * (LimbBase \div 128) ELSE 0)])

\* value & 0x7F, a small non-negative number (two's complement for v < 0)
PyAnd7F(v) ==
    LET low == IF v.mag = <<>> THEN 0 ELSE v.mag[1] % 128
    IN  IF v.neg THEN (128 - low) % 128 ELSE low

\* value >> 7, rounding towards minus infinity as Python does
PyShr7(v) ==
    IF v.neg
    THEN [t |-> "int", neg |-> TRUE, mag |-> MagShr7(MagAddSmall(v.mag, 127))]
    ELSE [t |-> "int", neg |-> FALSE, mag |-> MagShr7(v.mag)]

\* result | (group << shift) for result >= 0, 0 <= group < 128, shift a multiple of 7
PyOrShl(result, group, shift) ==
    LET j == (shift \div 28) + 1
        inner == shift % 28
        wide == [i \in 1..(IF Len(result.mag) < j THEN j ELSE Len(result.mag)) |->
                    IF i <= Len(result.mag) THEN result.mag[i] ELSE 0]
    IN  [t |-> "int", neg |-> FALSE,
         mag |-> MagStrip([wide EXCEPT ![j] = BitOr(@, group * (2^inner))])]

-----------------------------------------------------------------------------
(* VarInt codec.                                                           *)

\* mutant: the offset returned is that of the terminating byte, not the one after it
RECURSIVE VarIntDecodeLoopOffByOne(_, _, _, _)
VarIntDecodeLoopOffByOne(buf, i, result, shift) ==
    IF i < Len(buf)
    THEN LET byte == buf[i + 1]
             r2 == PyOrShl(result, BitAnd(byte, 127), shift)
         IN  IF BitAnd(byte, 128) = 0
             THEN Return(<<r2, i>>)
             ELSE VarIntDecodeLoopOffByOne(buf, i + 1, r2, shift + 7)
    ELSE Raise("ValueError")

\* mutant: a buffer that ends inside a varint yields the bits read so far
RECURSIVE VarIntDecodeLoopLenient(_, _, _, _)
VarIntDecodeLoopLenient(buf, i, result, shift) ==
    IF i < Len(buf)
    THEN LET byte == buf[i + 1]
             r2 == PyOrShl(result, BitAnd(byte, 127), shift)
         IN  IF BitAnd(byte, 128) = 0
             THEN Return(<<r2, i + 1>>)
             ELSE VarIntDecodeLoopLenient(buf, i + 1, r2, shift + 7)
    ELSE Return(<<result, i>>)

RECURSIVE VarIntDecodeLoop(_, _, _, _)
VarIntDecodeLoop(buf, i, result, shift) ==
    IF i < Len(buf)
    THEN LET byte == buf[i + 1]
             r2 == PyOrShl(result, BitAnd(byte, 127), shift)
         IN  IF BitAnd(byte, 128) = 0
             THEN Return(<<r2, i + 1>>)
             ELSE VarIntDecodeLoop(buf, i + 1, r2, shift + 7)
    ELSE Raise("ValueError")

VarIntDecode(buf, off) == VarIntDecodeLoop(buf, off, PyZero, 0)

\* mutant: the loop stops on the low seven bits instead of on the shifted value,
\* so a zero group in the middle of a value ends the encoding with a zero byte
RECURSIVE VarIntEncodeLoopStopsOnZeroGroup(_, _)
VarIntEncodeLoopStopsOnZeroGroup(v, result) ==
    LET low == PyAnd7F(v)
        v2 == PyShr7(v)
        byte == IF low # 0 THEN BitOr(low, 128) ELSE low
        r2 == Append(result, byte)
    IN  IF low = 0 THEN Return(r2)
        ELSE IF v2 = v THEN Diverge
        ELSE VarIntEncodeLoopStopsOnZeroGroup(v2, r2)

RECURSIVE VarIntEncodeLoop(_, _)
VarIntEncodeLoop(v, result) ==
    LET low == PyAnd7F(v)
        v2 == PyShr7(v)
        byte == IF v2 # PyZero THEN BitOr(low, 128) ELSE low
        r2 == Append(result, byte)
    IN  IF v2 = PyZero THEN Return(r2)
        ELSE IF v2 = v THEN Diverge
        ELSE VarIntEncodeLoop(v2, r2)

VarIntEncode(v) == VarIntEncodeLoop(v, <<>>)

-----------------------------------------------------------------------------
(* Python bytes, str, tuple and float values.                              *)
(* A str is its sequence of code points.  A finite float is neg, m, x with *)
(* value +-m * 2^x and m odd (m = 0, x = 0 for zero); the floats that      *)
(* occur have m < 2^31.                                                    *)

PyBytes(bs) == [t |-> "bytes", val |-> bs]
PyStr(cps) == [t |-> "str", val |-> cps]
PyList(xs) == [t |-> "list", val |-> xs]
PyDict(m) == [t |-> "dict", val |-> m]
PyTuple(xs) == [t |-> "tuple", val |-> xs]

RECURSIVE FloatNormal(_, _, _)
FloatNormal(neg, m, x) ==
    IF m = 0 THEN [t |-> "float", kind |-> "fin", neg |-> neg, m |-> 0, x |-> 0]
    ELSE IF m % 2 = 0 THEN FloatNormal(neg, m \div 2, x + 1)
    ELSE [t |-> "float", kind |-> "fin", neg |-> neg, m |-> m, x |-> x]

PyFloat(neg, m, x) == FloatNormal(neg, m, x)
PyInf(neg) == [t |-> "float", kind |-> "inf", neg |-> neg, m |-> 0, x |-> 0]
PyNaN == [t |-> "float", kind |-> "nan", neg |-> FALSE, m |-> 0, x |-> 0]

\* Python == on two floats
FloatEq(a, b) ==
    /\ a.kind # "nan"
    /\ b.kind # "nan"
    /\ a.kind = b.kind
    /\ a.m = b.m
    /\ a.x = b.x
    /\ (a.neg = b.neg \/ (a.kind = "fin" /\ a.m = 0))

RECURSIVE BitLen(_)
BitLen(m) == IF m = 0 THEN 0 ELSE 1 + BitLen(m \div 2)

\* m / 2^d rounded to the nearest integer, ties to even (m * 2^-d when d <= 0)
RoundShift(m, d) ==
    IF d <= 0 THEN m * (2^(0 - d))
    ELSE IF d >= 32 THEN 0
    ELSE IF d = 31 THEN (IF m > 2^30 THEN 1 ELSE 0)
    ELSE LET q == m \div (2^d)
             r == m % (2^d)
             half == 2^(d - 1)
         IN  IF r > half \/ (r = half /\ q % 2 = 1) THEN q + 1 ELSE q

\* float(int) for an int of at most one limb (exact)
IntToFloat(v) ==
    IF v.mag = <<>> THEN PyFloat(FALSE, 0, 0) ELSE PyFloat(v.neg, v.mag[1], 0)

\* struct.pack('>f', v)
PackF32(v) ==
    LET
        \* the 31 low bits of the IEEE 754 binary32 pattern of a finite non-zero float,
        \* or -1 when the rounded value is beyond the largest binary32
        F32Bits(f) ==
            LET L == BitLen(f.m)
                E == f.x + L - 1
            IN  IF E >= 0 - 126
                THEN LET M == RoundShift(f.m, L - 24)
                         E2 == IF M = 2^24 THEN E + 1 ELSE E
                         frac == IF M = 2^24 THEN 0 ELSE M - 2^23
                     IN  IF E2 > 127 THEN 0 - 1 ELSE (E2 + 127) * (2^23) + frac
                ELSE RoundShift(f.m, 0 - (f.x + 149))
    IN
        IF v.t \notin {"float", "int"} THEN Raise("struct.error")
        ELSE IF v.t = "int" /\ Len(v.mag) > 1 THEN Unmodelled
        ELSE LET f == IF v.t = "int" THEN IntToFloat(v) ELSE v
                 s == IF f.neg THEN 128 ELSE 0
             IN  IF f.kind = "nan" THEN Return(<<127, 192, 0, 0>>)
                 ELSE IF f.kind = "inf" THEN Return(<<s + 127, 128, 0, 0>>)
                 ELSE IF f.m = 0 THEN Return(<<s, 0, 0, 0>>)
                 ELSE LET bits == F32Bits(f)
                      IN  IF bits < 0 THEN Raise("OverflowError")
                          ELSE Return(<<s + (bits \div 2^24), (bits \div 2^16) % 256,
                                        (bits \div 2^8) % 256, bits % 256>>)

\* struct.pack('>d', v): exact, a float of the model has at most 31 significant bits
PackF64(v) ==
    LET
        RECURSIVE TopAlignedBits(_, _, _, _, _)
        \* the bits i, i + 1, .. i + n - 1 (counted from the top) of F written in width w and
        \* followed by zeros, as a number
        TopAlignedBits(F, w, i, n, k) ==
            IF k = n THEN 0
            ELSE (IF i + k < w THEN (F \div (2^(w - 1 - (i + k)))) % 2 ELSE 0) * (2^(n - 1 - k))
                 + TopAlignedBits(F, w, i, n, k + 1)
    IN
        IF v.t \notin {"float", "int"} THEN Raise("struct.error")
        ELSE IF v.t = "int" /\ Len(v.mag) > 1 THEN Unmodelled
        ELSE LET f == IF v.t = "int" THEN IntToFloat(v) ELSE v
                 s == IF f.neg THEN 128 ELSE 0
                 L == BitLen(f.m)
                 be == f.x + L - 1 + 1023
                 F == f.m - 2^(L - 1)
             IN  IF f.kind = "nan" THEN Return(<<127, 248, 0, 0, 0, 0, 0, 0>>)
                 ELSE IF f.kind = "inf" THEN Return(<<s + 127, 240, 0, 0, 0, 0, 0, 0>>)
                 ELSE IF f.m = 0 THEN Return(<<s, 0, 0, 0, 0, 0, 0, 0>>)
                 ELSE IF be < 1 \/ be > 2046 THEN Unmodelled
                 ELSE Return(<<s + (be \div 16),
                               (be % 16) * 16 + TopAlignedBits(F, L - 1, 0, 4, 0)>>
                             \o [k \in 1..6 |-> TopAlignedBits(F, L - 1, 4 + 8 * (k - 1), 8, 0)])

\* struct.unpack('>f', b)[0] for four bytes b
UnpackF32(b) ==
    LET neg == b[1] >= 128
        e == (b[1] % 128) * 2 + (b[2] \div 128)
        frac == (b[2] % 128) * 65536 + b[3] * 256 + b[4]
    IN  IF e = 255 THEN (IF frac = 0 THEN PyInf(neg) ELSE PyNaN)
        ELSE IF e = 0 THEN PyFloat(neg, frac, 0 - 149)
        ELSE PyFloat(neg, 2^23 + frac, e - 150)

\* bit p (from the least significant) of a magnitude
MagBit(mag, p) ==
    IF (p \div 28) + 1 > Len(mag) THEN 0 ELSE (mag[(p \div 28) + 1] \div (2^(p % 28))) % 2

MagBitLen(mag) ==
    IF mag = <<>> THEN 0 ELSE 28 * (Len(mag) - 1) + BitLen(mag[Len(mag)])

RECURSIVE MagBitsValue(_, _, _, _)
\* the number made of the bits from, from + 1, .. from + n - 1 of a magnitude
MagBitsValue(mag, from, n, k) ==
    IF k = n THEN 0
    ELSE MagBit(mag, from + k) * (2^k) + MagBitsValue(mag, from, n, k + 1)

\* the n bytes, most significant first, of a magnitude below 2^(8n)
MagToBytes(mag, n) == [i \in 1..n |-> MagBitsValue(mag, 8 * (n - i), 8, 0)]

\* the magnitude of the unsigned big-endian number held in a byte sequence
MagFromBytes(bs) ==
    LET n == Len(bs)
        bit(p) == IF p >= 8 * n THEN 0 ELSE (bs[n - (p \div 8)] \div (2^(p % 8))) % 2
        limb(j) == LET RECURSIVE Sum(_)
                       Sum(k) == IF k = 28 THEN 0 ELSE bit(28 * j + k) * (2^k) + Sum(k + 1)
                   IN  Sum(0)
    IN  MagStrip([j \in 1..((8 * n + 27) \div 28) |-> limb(j - 1)])

RECURSIVE MagSub(_, _, _)
\* a - b - borrow for magnitudes a >= b + borrow, limb by limb (not stripped)
MagSub(a, b, borrow) ==
    IF a = <<>> THEN <<>>
    ELSE LET bl == IF b = <<>> THEN 0 ELSE b[1]
             d == a[1] - bl - borrow
         IN  <<IF d < 0 THEN d + LimbBase ELSE d>>
             \o MagSub(Tail(a), IF b = <<>> THEN <<>> ELSE Tail(b), IF d < 0 THEN 1 ELSE 0)

\* struct.pack of one unsigned integer of n bytes ('>B', '>H', '>I', '>Q')
PackUInt(v, n) ==
    IF v.t # "int" THEN Raise("struct.error")
    ELSE IF v.neg \/ MagBitLen(v.mag) > 8 * n THEN Raise("struct.error")
    ELSE Return(MagToBytes(v.mag, n))

\* struct.unpack of one unsigned integer from its bytes
UnpackUInt(bs) == [t |-> "int", neg |-> FALSE, mag |-> MagFromBytes(bs)]

\* 2^32 as a magnitude
Two32 == <<0, 16>>

\* struct.pack('>i', v)
PackInt32(v) ==
    IF v.t # "int" THEN Raise("struct.error")
    ELSE IF ~v.neg
    THEN (IF MagBitLen(v.mag) > 31 THEN Raise("struct.error") ELSE Return(MagToBytes(v.mag, 4)))
    ELSE IF MagBitLen(MagStrip(MagSub(v.mag, <<1>>, 0))) > 31 THEN Raise("struct.error")
    ELSE Return(MagToBytes(MagStrip(MagSub(Two32, v.mag, 0)), 4))

\* struct.unpack('>i', b)[0]
UnpackInt32(bs) ==
    IF bs[1] >= 128
    THEN [t |-> "int", neg |-> TRUE, mag |-> MagStrip(MagSub(Two32, MagFromBytes(bs), 0))]
    ELSE UnpackUInt(bs)

\* int as a small number when it has at most one limb, else a number above every length
IndexOf(v) == IF v.mag = <<>> THEN 0 ELSE IF Len(v.mag) = 1 THEN v.mag[1] ELSE LimbBase

\* data[a:b] for 0 <= a: slicing never raises, it cuts at the end of the data
Slice(bs, a, b) ==
    LET hi == IF b > Len(bs) THEN Len(bs) ELSE b
    IN  IF a >= hi THEN <<>> ELSE SubSeq(bs, a + 1, hi)

RECURSIVE Concat(_)
Concat(parts) == IF parts = <<>> THEN <<>> ELSE Head(parts) \o Concat(Tail(parts))

-----------------------------------------------------------------------------
(* Hexadecimal and UTF-8 text.                                             *)

\* bytes.hex(): two lower-case digits per byte
BytesHex(bs) ==
    LET
        HexDigit(n) == IF n < 10 THEN 48 + n ELSE 97 + (n - 10)
    IN
        PyStr([i \in 1..(2 * Len(bs)) |->
            IF i % 2 = 1 THEN HexDigit(bs[(i + 1) \div 2] \div 16) ELSE HexDigit(bs[i \div 2] % 16)])

\* the value of a hexadecimal digit, -1 for any other character
HexValue(c) ==
    IF c >= 48 /\ c <= 57 THEN c - 48
    ELSE IF c >= 97 /\ c <= 102 THEN c - 87
    ELSE IF c >= 65 /\ c <= 70 THEN c - 55
    ELSE 0 - 1

\* bytes.fromhex(s): white space between bytes is skipped, anything else that is not a
\* pair of hexadecimal digits is a ValueError
BytesFromHex(text) ==
    LET
        IsAsciiSpace(c) == c = 32 \/ (c >= 9 /\ c <= 13)
        RECURSIVE FromHexLoop(_, _)
        FromHexLoop(cps, out) ==
            IF cps = <<>> THEN Return(out)
            ELSE IF IsAsciiSpace(cps[1]) THEN FromHexLoop(Tail(cps), out)
            ELSE IF Len(cps) < 2 \/ HexValue(cps[1]) < 0 \/ HexValue(cps[2]) < 0 THEN Raise("ValueError")
            ELSE FromHexLoop(SubSeq(cps, 3, Len(cps)), Append(out, 16 * HexValue(cps[1]) + HexValue(cps[2])))
    IN
        FromHexLoop(text, <<>>)

\* s.replace('-', '')
RemoveDashes(cps) == SelectSeq(cps, LAMBDA c : c # 45)

\* s.encode('utf-8'); a code point below 128 is encoded as the byte of that number
Utf8Encode(text) ==
    LET
        \* the UTF-8 bytes of one code point; surrogates have none
        Utf8OfCodePoint(c) ==
            IF c < 128 THEN <<c>>
            ELSE IF c < 2048 THEN <<192 + (c \div 64), 128 + (c % 64)>>
            ELSE IF c < 65536 THEN <<224 + (c \div 4096), 128 + ((c \div 64) % 64), 128 + (c % 64)>>
            ELSE <<240 + (c \div 262144), 128 + ((c \div 4096) % 64), 128 + ((c \div 64) % 64),
                   128 + (c % 64)>>
        IsSurrogate(c) == c >= 55296 /\ c <= 57343
        RECURSIVE Utf8EncodeRange(_, _, _)
        \* the encodings of the code points cps[lo..hi], joined
        Utf8EncodeRange(cps, lo, hi) ==
            IF lo > hi THEN <<>>
            ELSE IF lo = hi THEN Utf8OfCodePoint(cps[lo])
            ELSE LET mid == (lo + hi) \div 2
                 IN  Utf8EncodeRange(cps, lo, mid) \o Utf8EncodeRange(cps, mid + 1, hi)
    IN
        IF \A i \in 1..Len(text) : text[i] < 128 THEN Return([i \in 1..Len(text) |-> text[i]])
        ELSE IF \E i \in 1..Len(text) : IsSurrogate(text[i]) THEN Raise("UnicodeEncodeError")
        ELSE Return(Utf8EncodeRange(text, 1, Len(text)))

\* b.decode('utf-8')
Utf8Decode(raw) ==
    LET
        IsCont(bs, i) == i <= Len(bs) /\ bs[i] >= 128 /\ bs[i] <= 191
        RECURSIVE Utf8DecodeLoop(_, _)
        Utf8DecodeLoop(bs, out) ==
            IF bs = <<>> THEN Return(PyStr(out))
            ELSE LET b == bs[1]
                 IN  IF b < 128 THEN Utf8DecodeLoop(Tail(bs), Append(out, b))
                     ELSE IF b >= 194 /\ b <= 223 /\ IsCont(bs, 2)
                     THEN Utf8DecodeLoop(SubSeq(bs, 3, Len(bs)),
                                         Append(out, (b - 192) * 64 + (bs[2] - 128)))
                     ELSE IF /\ b >= 224 /\ b <= 239 /\ IsCont(bs, 2) /\ IsCont(bs, 3)
                             /\ (b = 224 => bs[2] >= 160)
                             /\ (b = 237 => bs[2] <= 159)
                     THEN Utf8DecodeLoop(SubSeq(bs, 4, Len(bs)),
                                         Append(out, (b - 224) * 4096 + (bs[2] - 128) * 64 + (bs[3] - 128)))
                     ELSE IF /\ b >= 240 /\ b <= 244 /\ IsCont(bs, 2) /\ IsCont(bs, 3) /\ IsCont(bs, 4)
                             /\ (b = 240 => bs[2] >= 144)
                             /\ (b = 244 => bs[2] <= 143)
                     THEN Utf8DecodeLoop(SubSeq(bs, 5, Len(bs)),
                                         Append(out, (b - 240) * 262144 + (bs[2] - 128) * 4096
                                                     + (bs[3] - 128) * 64 + (bs[4] - 128)))
                     ELSE Raise("UnicodeDecodeError")
    IN
        Utf8DecodeLoop(raw, <<>>)

-----------------------------------------------------------------------------
(* Packet definitions and the packet builder of IntegratedFuzzer.          *)

\* the text of a packet identifier, as code points
Id01 == <<48, 120, 48, 49>>
Id03 == <<48, 120, 48, 51>>
Id07 == <<48, 120, 48, 55>>

Field(name, type) == [name |-> name, type |-> type]

MinimalDefinitions ==
    (Id01 :> [name |-> "MovementInput",
              fields |-> <<Field("playerID", "UUID"), Field("position", "Vector3f"),
                           Field("velocity", "Vector3f"), Field("yaw", "f32"),
                           Field("pitch", "f32"), Field("flags", "u8"),
                           Field("tick", "u32")>>])
    @@ (Id03 :> [name |-> "ChatMessage",
                 fields |-> <<Field("playerID", "UUID"), Field("messageLength", "varint"),
                              Field("message", "UTF-8"), Field("timestamp", "u64")>>])

\* the file named by packet_structures_file: absent, a directory, text that is not JSON,
\* or the JSON text of a registry
SchemaSources ==
    {[file |-> "missing"], [file |-> "directory"], [file |-> "malformed"],
     [file |-> "json", content |-> MinimalDefinitions]}

\* open(filename, 'r') and json.load(f); only FileNotFoundError is handled
LoadPacketDefinitions(source) ==
    CASE source.file = "missing" -> Return(MinimalDefinitions)
      [] source.file = "directory" -> Raise("IsADirectoryError")
      [] source.file = "malformed" -> Raise("JSONDecodeError")
      [] OTHER -> Return(source.content)

\* the registry of a fuzzer constructed without a packet structures file
PacketDefinitions == MinimalDefinitions

\* self.packet_definitions.get(packet_id)
GetPacketDefinition(id) ==
    IF id \in DOMAIN PacketDefinitions THEN PacketDefinitions[id] ELSE None

Zeros(n) == [i \in 1..n |-> 0]
FloatZero == PyFloat(FALSE, 0, 0)

GetDefaultValue(type) ==
    CASE type = "UUID" -> PyBytes(Zeros(16))
      [] type \in {"u8", "u16", "u32", "u64", "varint"} -> PyInt(0)
      [] type \in {"f32", "f64"} -> FloatZero
      [] type = "Vector3f" -> PyTuple(<<FloatZero, FloatZero, FloatZero>>)
      [] type = "Vector3i" -> PyTuple(<<PyInt(0), PyInt(0), PyInt(0)>>)
      [] type = "UTF-8" -> PyStr(<<>>)
      [] OTHER -> PyInt(0)

RECURSIVE PackAll(_, _, _)
\* struct.pack of several values with the format character f or i each: the first
\* value that cannot be packed decides the outcome
PackAll(format, xs, out) ==
    IF xs = <<>> THEN Return(out)
    ELSE LET r == IF format = "f" THEN PackF32(xs[1]) ELSE PackInt32(xs[1])
         IN  IF r.st # "return" THEN r ELSE PackAll(format, Tail(xs), out \o r.val)

\* int(packet_id, 16) for a text with an optional 0x prefix and at most six digits
IntBase16(cps) ==
    LET digits == IF Len(cps) >= 2 /\ cps[1] = 48 /\ cps[2] \in {120, 88}
                  THEN SubSeq(cps, 3, Len(cps)) ELSE cps
        RECURSIVE Fold(_, _)
        Fold(ds, acc) == IF ds = <<>> THEN acc ELSE Fold(Tail(ds), 16 * acc + HexValue(ds[1]))
    IN  IF digits = <<>> \/ \E i \in 1..Len(digits) : HexValue(digits[i]) < 0
        THEN Raise("ValueError")
        ELSE IF Len(digits) > 6 THEN Unmodelled
        ELSE Return(PyInt(Fold(digits, 0)))

\* VarInt.encode applied to any Python value: & and >> need an int
VarIntEncodeAny(v) == IF v.t = "int" THEN VarIntEncode(v) ELSE Raise("TypeError")

EncodeField(type, v) ==
    CASE type = "UUID" ->
            IF v.t = "str" THEN BytesFromHex(RemoveDashes(v.val))
            ELSE IF v.t = "bytes" THEN Return(v.val) ELSE Return(Zeros(16))
      [] type = "u8" -> PackUInt(v, 1)
      [] type = "u16" -> PackUInt(v, 2)
      [] type = "u32" -> PackUInt(v, 4)
      [] type = "u64" -> PackUInt(v, 8)
      [] type = "f32" -> PackF32(v)
      [] type = "f64" -> PackF64(v)
      [] type = "Vector3f" ->
            IF v.t = "tuple" /\ Len(v.val) = 3
            THEN PackAll("f", v.val, <<>>) ELSE Return(Zeros(12))
      [] type = "Vector3i" ->
            IF v.t = "tuple" /\ Len(v.val) = 3
            THEN PackAll("i", v.val, <<>>) ELSE Return(Zeros(12))
      [] type = "varint" -> VarIntEncodeAny(v)
      [] type = "UTF-8" ->
            IF v.t = "str"
            THEN LET b == Utf8Encode(v.val)
                 IN  IF b.st # "return" THEN b
                     ELSE Return(VarIntEncode(PyInt(Len(b.val))).val \o b.val)
            ELSE VarIntEncode(PyInt(0))
      [] OTHER -> Return(<<>>)

RECURSIVE BuildFields(_, _, _)
\* the loop of build_packet over the fields of the definition
BuildFields(fields, fv, out) ==
    IF fields = <<>> THEN Return(out)
    ELSE LET f == fields[1]
             v == IF f.name \notin DOMAIN fv THEN GetDefaultValue(f.type) ELSE fv[f.name]
             r == EncodeField(f.type, v)
         IN  IF r.st # "return" THEN r ELSE BuildFields(Tail(fields), fv, out \o r.val)

\* mutant: a field missing from the field-map is a KeyError
BuildPacketMissingIsKeyError(id, fv) ==
    LET definition == GetPacketDefinition(id)
    IN  IF definition = None THEN Raise("ValueError")
        ELSE IF \E i \in 1..Len(definition.fields) : definition.fields[i].name \notin DOMAIN fv
        THEN Raise("KeyError")
        ELSE LET n == IntBase16(id)
             IN  IF n.st # "return" THEN n
                 ELSE BuildFields(definition.fields, fv, VarIntEncode(n.val).val)

BuildPacket(id, fv) ==
    LET definition == GetPacketDefinition(id)
    IN  IF definition = None THEN Raise("ValueError")
        ELSE LET n == IntBase16(id)
             IN  IF n.st # "return" THEN n
                 ELSE BuildFields(definition.fields, fv, VarIntEncode(n.val).val)

-----------------------------------------------------------------------------
(* IntegratedFuzzer.fuzz_packet and _mutate_value.                         *)

\* the value 2^64
Two64 == [t |-> "int", neg |-> FALSE, mag |-> <<0, 0, 256>>]

\* self._mutate_value(field_type, base_value, mutation_type)
MutateValue(type, base_value, mutation_type) ==
    CASE mutation_type = "overflow" ->
            (CASE type = "u8" -> PyInt(256)
               [] type = "u16" -> PyInt(65536)
               [] type = "u32" -> PyIntParts(FALSE, 16, 0)
               [] type = "u64" -> Two64
               [] type = "f32" -> PyInf(FALSE)
               [] type = "varint" -> PyIntParts(FALSE, 15, LimbBase - 1)
               [] OTHER -> None)
      [] mutation_type = "underflow" ->
            (CASE type \in {"u8", "u16", "u32", "u64"} -> PyInt(0 - 1)
               [] type = "f32" -> PyInf(TRUE)
               [] OTHER -> None)
      [] mutation_type = "null" ->
            (CASE type = "UUID" -> PyBytes(Zeros(16))
               [] type = "UTF-8" -> PyStr(<<>>)
               [] type \in {"Vector3f", "Vector3i"} -> PyTuple(<<PyInt(0), PyInt(0), PyInt(0)>>)
               [] OTHER -> None)
      [] mutation_type = "edge_case" ->
            (CASE type = "f32" -> PyNaN
               [] type = "u32" -> PyIntParts(FALSE, 15, LimbBase - 1)
               [] type = "UTF-8" -> PyStr([i \in 1..10000 |-> 65])
               [] type = "Vector3f" -> PyTuple(<<PyInf(FALSE), PyNaN, FloatZero>>)
               [] OTHER -> None)
      [] OTHER -> None

\* a kind list that depends on the fuzzer's counter: reversed once an odd number of
\* elements has been generated
MutationsOrDefaultByCounter(muts) ==
    LET kinds == IF muts = None \/ muts.val = <<>>
                 THEN <<"overflow", "underflow", "null", "edge_case">>
                 ELSE muts.val
    IN  IF mutations_generated % 2 = 0 THEN kinds
        ELSE [k \in 1..Len(kinds) |-> kinds[Len(kinds) + 1 - k]]

\* mutations or ["overflow", "underflow", "null", "edge_case"]
MutationsOrDefault(muts) ==
    IF muts = None \/ muts.val = <<>> THEN <<"overflow", "underflow", "null", "edge_case">>
    ELSE muts.val

\* base_values or {}
BaseValuesOrEmpty(base) == IF base = None THEN <<>> ELSE base.val

\* base_values.get(field_name, self._get_default_value(field_type))
BaseValue(base, field) ==
    IF field.name \in DOMAIN base THEN base[field.name] ELSE GetDefaultValue(field.type)

\* the type of the first field of that name
FieldType(fields, name) ==
    fields[CHOOSE i \in 1..Len(fields) :
              /\ fields[i].name = name
              /\ \A k \in 1..(i - 1) : fields[k].name # name].type

\* field_values bound to base_values itself, not to a copy of it
DictAlias(base) == [alias |-> TRUE, val |-> base]

\* base_values.copy(): another dict with the same entries
DictCopy(base) == [alias |-> FALSE, val |-> base]

\* field_values with the mutated value stored and the defaults filled in
MutatedFieldValues(fields, base, name, mutated_value) ==
    [n \in DOMAIN base \cup {fields[i].name : i \in 1..Len(fields)} |->
        IF n = name THEN mutated_value
        ELSE IF n \in DOMAIN base THEN base[n]
        ELSE GetDefaultValue(FieldType(fields, n))]

RECURSIVE FuzzPacketResume(_, _, _, _, _)
\* the body of fuzz_packet run from the pair (i, j) of the two loops to its next yield,
\* to its end, or for ever; base is the dict base_values is bound to, and the outcome
\* tells what that dict holds afterwards
FuzzPacketResume(id, base, muts, i, j) ==
    LET definition == GetPacketDefinition(id)
        fields == definition.fields
    IN  IF definition = None \/ i > Len(fields) THEN [st |-> "stop", base_values |-> base]
        ELSE IF j > Len(muts) THEN FuzzPacketResume(id, base, muts, i + 1, 1)
        ELSE LET field == fields[i]
                 base_value == BaseValue(base, field)
                 mutated_value == MutateValue(field.type, base_value, muts[j])
                 copy == DictCopy(base)
                 stored == MutatedFieldValues(fields, copy.val, field.name, mutated_value)
                 base_after == IF copy.alias THEN stored ELSE base
                 mutated_packet == BuildPacket(id, stored)
             IN  IF mutated_value = None THEN FuzzPacketResume(id, base, muts, i, j + 1)
                 ELSE IF mutated_packet.st = "raise"
                 THEN FuzzPacketResume(id, base_after, muts, i, j + 1)
                 ELSE IF mutated_packet.st # "return"
                 THEN [st |-> mutated_packet.st, base_values |-> base_after]
                 ELSE [st |-> "yield", field |-> i, mutation |-> j,
                       base_values |-> base_after, field_values |-> stored,
                       item |-> <<mutated_packet.val,
                                  [packet_id |-> id,
                                   packet_name |-> definition.name,
                                   mutated_field |-> field.name,
                                   mutation_type |-> muts[j],
                                   original_value |-> base_value,
                                   mutated_value |-> mutated_value]>>]

-----------------------------------------------------------------------------
(* HytalePacket: parse and the five payload decoders.                      *)

\* struct.unpack_from of n bytes at an offset: the bytes, or struct.error when the
\* buffer is too short
UnpackFrom(n, payload, off) ==
    IF off + n > Len(payload) THEN Raise("struct.error")
    ELSE Return(SubSeq(payload, off + 1, off + n))

\* Vector3f.from_bytes, without the advanced offset
Vector3fFromBytes(payload, off) ==
    LET b == UnpackFrom(12, payload, off)
    IN  IF b.st # "return" THEN b
        ELSE Return([x |-> UnpackF32(SubSeq(b.val, 1, 4)),
                     y |-> UnpackF32(SubSeq(b.val, 5, 8)),
                     z |-> UnpackF32(SubSeq(b.val, 9, 12))])

\* Vector3i.from_bytes, without the advanced offset
Vector3iFromBytes(payload, off) ==
    LET b == UnpackFrom(12, payload, off)
    IN  IF b.st # "return" THEN b
        ELSE Return([x |-> UnpackInt32(SubSeq(b.val, 1, 4)),
                     y |-> UnpackInt32(SubSeq(b.val, 5, 8)),
                     z |-> UnpackInt32(SubSeq(b.val, 9, 12))])

\* payload[off]
ByteAt(payload, off) ==
    IF off >= Len(payload) THEN Raise("IndexError") ELSE Return(payload[off + 1])

\* bool(flags & mask)
FlagSet(flags, mask) == BitAnd(flags, mask) # 0

\* mutant: the tick is read one byte early, over the flags byte
DecodeMovementTickEarly(payload) ==
    LET position == Vector3fFromBytes(payload, 16)
        velocity == Vector3fFromBytes(payload, 28)
        yaw == UnpackFrom(4, payload, 40)
        pitch == UnpackFrom(4, payload, 44)
        flags == ByteAt(payload, 48)
        tick == UnpackFrom(4, payload, 48)
    IN  IF position.st # "return" THEN position
        ELSE IF velocity.st # "return" THEN velocity
        ELSE IF yaw.st # "return" THEN yaw
        ELSE IF pitch.st # "return" THEN pitch
        ELSE IF flags.st # "return" THEN flags
        ELSE IF tick.st # "return" THEN tick
        ELSE Return([type |-> "MOVEMENT",
                     player_id |-> BytesHex(Slice(payload, 0, 16)),
                     position |-> position.val,
                     velocity |-> velocity.val,
                     yaw |-> UnpackF32(yaw.val),
                     pitch |-> UnpackF32(pitch.val),
                     flags |-> [is_jumping |-> FlagSet(flags.val, 1),
                                is_sprinting |-> FlagSet(flags.val, 2),
                                is_crouching |-> FlagSet(flags.val, 4),
                                is_swimming |-> FlagSet(flags.val, 8),
                                is_flying |-> FlagSet(flags.val, 16)],
                     tick |-> UnpackUInt(tick.val)])

DecodeMovement(payload) ==
    LET position == Vector3fFromBytes(payload, 16)
        velocity == Vector3fFromBytes(payload, 28)
        yaw == UnpackFrom(4, payload, 40)
        pitch == UnpackFrom(4, payload, 44)
        flags == ByteAt(payload, 48)
        tick == UnpackFrom(4, payload, 49)
    IN  IF position.st # "return" THEN position
        ELSE IF velocity.st # "return" THEN velocity
        ELSE IF yaw.st # "return" THEN yaw
        ELSE IF pitch.st # "return" THEN pitch
        ELSE IF flags.st # "return" THEN flags
        ELSE IF tick.st # "return" THEN tick
        ELSE Return([type |-> "MOVEMENT",
                     player_id |-> BytesHex(Slice(payload, 0, 16)),
                     position |-> position.val,
                     velocity |-> velocity.val,
                     yaw |-> UnpackF32(yaw.val),
                     pitch |-> UnpackF32(pitch.val),
                     flags |-> [is_jumping |-> FlagSet(flags.val, 1),
                                is_sprinting |-> FlagSet(flags.val, 2),
                                is_crouching |-> FlagSet(flags.val, 4),
                                is_swimming |-> FlagSet(flags.val, 8),
                                is_flying |-> FlagSet(flags.val, 16)],
                     tick |-> UnpackUInt(tick.val)])

\* mutant: the timestamp is read where the message starts
DecodeChatTimestampBeforeMessage(payload) ==
    LET len == VarIntDecode(payload, 16)
    IN  IF len.st # "return" THEN len
        ELSE LET msg_length == IndexOf(len.val[1])
                 off == len.val[2]
                 message == Utf8Decode(Slice(payload, off, off + msg_length))
                 timestamp == UnpackFrom(8, payload, off)
             IN  IF message.st # "return" THEN message
                 ELSE IF timestamp.st # "return" THEN timestamp
                 ELSE Return([type |-> "CHAT",
                              player_id |-> BytesHex(Slice(payload, 0, 16)),
                              message |-> message.val,
                              timestamp |-> UnpackUInt(timestamp.val)])

DecodeChat(payload) ==
    LET len == VarIntDecode(payload, 16)
    IN  IF len.st # "return" THEN len
        ELSE LET msg_length == IndexOf(len.val[1])
                 off == len.val[2]
                 message == Utf8Decode(Slice(payload, off, off + msg_length))
                 timestamp == UnpackFrom(8, payload, off + msg_length)
             IN  IF message.st # "return" THEN message
                 ELSE IF timestamp.st # "return" THEN timestamp
                 ELSE Return([type |-> "CHAT",
                              player_id |-> BytesHex(Slice(payload, 0, 16)),
                              message |-> message.val,
                              timestamp |-> UnpackUInt(timestamp.val)])

\* names[i] if i < len(names) else unknown_<i>
NameOrUnknown(names, i) == IF i < Len(names) THEN names[i + 1] ELSE <<"unknown", i>>

DecodeBlockInteraction(payload) ==
    LET block_pos == Vector3iFromBytes(payload, 16)
        face == ByteAt(payload, 28)
        action == ByteAt(payload, 29)
    IN  IF block_pos.st # "return" THEN block_pos
        ELSE IF face.st # "return" THEN face
        ELSE IF action.st # "return" THEN action
        ELSE Return([type |-> "BLOCK_INTERACTION",
                     player_id |-> BytesHex(Slice(payload, 0, 16)),
                     block_position |-> block_pos.val,
                     face |-> NameOrUnknown(<<"top", "bottom", "north", "south", "east", "west">>,
                                            face.val),
                     action |-> NameOrUnknown(<<"place", "break", "interact">>, action.val)])

DecodeEntitySpawn(payload) ==
    LET entity_id == UnpackFrom(4, payload, 0)
        entity_type == UnpackFrom(2, payload, 4)
        position == Vector3fFromBytes(payload, 6)
        rotation == UnpackFrom(8, payload, 18)
    IN  IF entity_id.st # "return" THEN entity_id
        ELSE IF entity_type.st # "return" THEN entity_type
        ELSE IF position.st # "return" THEN position
        ELSE IF rotation.st # "return" THEN rotation
        ELSE Return([type |-> "ENTITY_SPAWN",
                     entity_id |-> UnpackUInt(entity_id.val),
                     entity_type |-> NameOrUnknown(<<"player", "monster", "npc", "item">>,
                                                   IndexOf(UnpackUInt(entity_type.val))),
                     position |-> position.val,
                     rotation |-> [yaw |-> UnpackF32(SubSeq(rotation.val, 1, 4)),
                                   pitch |-> UnpackF32(SubSeq(rotation.val, 5, 8))]])

DecodeGamePhaseChange(payload) ==
    LET phase == ByteAt(payload, 0)
        duration == UnpackFrom(4, payload, 1)
        len == VarIntDecode(payload, 5)
    IN  IF phase.st # "return" THEN phase
        ELSE IF duration.st # "return" THEN duration
        ELSE IF len.st # "return" THEN len
        ELSE LET off == len.val[2]
                 announcement == Utf8Decode(Slice(payload, off, off + IndexOf(len.val[1])))
             IN  IF announcement.st # "return" THEN announcement
                 ELSE Return([type |-> "GAME_PHASE_CHANGE",
                              new_phase |-> NameOrUnknown(<<"LOBBY", "DAY", "VOTING", "NIGHT", "END">>,
                                                          phase.val),
                              duration_ms |-> UnpackUInt(duration.val),
                              announcement |-> announcement.val])

\* PacketID
MOVEMENT == 1
CHAT == 3
BLOCK_INTERACTION == 5
ITEM_USE == 7
ENTITY_SPAWN == 8
GAME_PHASE_CHANGE == 15

\* f"{packet_id:02X}" for packet_id >= 0
Format02X(v) ==
    LET
        HexDigitUpper(n) == IF n < 10 THEN 48 + n ELSE 65 + (n - 10)
        RECURSIVE HexUpperLoop(_, _)
        \* the upper-case hexadecimal digits of the n low nibbles of a magnitude
        HexUpperLoop(mag, n) ==
            IF n = 0 THEN <<>>
            ELSE <<HexDigitUpper(MagBitsValue(mag, 4 * (n - 1), 4, 0))>> \o HexUpperLoop(mag, n - 1)
    IN
        LET n == (MagBitLen(v.mag) + 3) \div 4
        IN  HexUpperLoop(v.mag, IF n < 2 THEN 2 ELSE n)

\* the dictionary returned for an identifier without a decoder:
\* {"error": f"Unknown packet ID: 0x{packet_id:02X}"}
UnknownPacket(v) == [error |-> <<"Unknown packet ID: 0x", Format02X(v)>>]

\* mutant: ITEM_USE is dispatched to the block interaction decoder
HytalePacketDecodeItemUse(pid, payload) ==
    IF pid = None THEN Raise("TypeError")
    ELSE IF pid = PyInt(MOVEMENT) THEN DecodeMovement(payload)
    ELSE IF pid = PyInt(CHAT) THEN DecodeChat(payload)
    ELSE IF pid \in {PyInt(BLOCK_INTERACTION), PyInt(ITEM_USE)}
    THEN DecodeBlockInteraction(payload)
    ELSE IF pid = PyInt(ENTITY_SPAWN) THEN DecodeEntitySpawn(payload)
    ELSE IF pid = PyInt(GAME_PHASE_CHANGE) THEN DecodeGamePhaseChange(payload)
    ELSE Return(UnknownPacket(pid))

\* HytalePacket.decode; before parse() the identifier is None and cannot be formatted
HytalePacketDecode(pid, payload) ==
    IF pid = None THEN Raise("TypeError")
    ELSE IF pid = PyInt(MOVEMENT) THEN DecodeMovement(payload)
    ELSE IF pid = PyInt(CHAT) THEN DecodeChat(payload)
    ELSE IF pid = PyInt(BLOCK_INTERACTION) THEN DecodeBlockInteraction(payload)
    ELSE IF pid = PyInt(ENTITY_SPAWN) THEN DecodeEntitySpawn(payload)
    ELSE IF pid = PyInt(GAME_PHASE_CHANGE) THEN DecodeGamePhaseChange(payload)
    ELSE Return(UnknownPacket(pid))

\* HytalePacket.parse: the identifier and the payload, or the ValueError of the VarInt
HytalePacketParse(raw) ==
    LET r == VarIntDecode(raw, 0)
    IN  IF r.st # "return" THEN r
        ELSE Return([packet_id |-> r.val[1], payload |-> Slice(raw, r.val[2], Len(raw))])

\* mutant: analyze_packet with "except ValueError" for "except Exception"
AnalyzePacketExceptValueError(packet_bytes) ==
    LET parsed == HytalePacketParse(packet_bytes)
        dec == HytalePacketDecode(parsed.val.packet_id, parsed.val.payload)
        Caught(r) == r.st = "raise" /\ r.exc \in {"ValueError", "UnicodeDecodeError"}
        Failure(r) ==
            Return([success |-> FALSE, error |-> r.exc, raw_hex |-> BytesHex(packet_bytes)])
    IN  IF Caught(parsed) THEN Failure(parsed)
        ELSE IF parsed.st # "return" THEN parsed
        ELSE IF Caught(dec) THEN Failure(dec)
        ELSE IF dec.st # "return" THEN dec
        ELSE Return([success |-> TRUE,
                     packet_id |-> <<"0x", Format02X(parsed.val.packet_id)>>,
                     decoded |-> dec.val])

\* IntegratedFuzzer.analyze_packet: a HytalePacket of its own is parsed and dec, and
\* an exception of class Exception becomes the failure dictionary, whose "error" is
\* str(e), here the exception
AnalyzePacket(packet_bytes) ==
    LET parsed == HytalePacketParse(packet_bytes)
        dec == HytalePacketDecode(parsed.val.packet_id, parsed.val.payload)
        \* except Exception: every class but the BaseException-only ones
        Caught(r) ==
            r.st = "raise" /\ r.exc \notin {"KeyboardInterrupt", "SystemExit", "GeneratorExit"}
        Failure(r) ==
            Return([success |-> FALSE, error |-> r.exc, raw_hex |-> BytesHex(packet_bytes)])
    IN  IF Caught(parsed) THEN Failure(parsed)
        ELSE IF parsed.st # "return" THEN parsed
        ELSE IF Caught(dec) THEN Failure(dec)
        ELSE IF dec.st # "return" THEN dec
        ELSE Return([success |-> TRUE,
                     packet_id |-> <<"0x", Format02X(parsed.val.packet_id)>>,
                     decoded |-> dec.val])

-----------------------------------------------------------------------------
(* Inputs of the VarInt codec.                                             *)

RECURSIVE SeqsUpTo(_, _)
SeqsUpTo(S, n) ==
    IF n = 0 THEN {<<>>}
    ELSE LET shorter == SeqsUpTo(S, n - 1)
         IN  shorter \cup {Append(s, b) : s \in {x \in shorter : Len(x) = n - 1}, b \in S}

BufferSet ==
    LET
        ByteSet == {0, 1, 127, 128, 255}
    IN
        SeqsUpTo(ByteSet, MaxBufLen)

ValueSet ==
    LET
        \* low limbs around the 7-bit group boundaries 2^7, 2^14, 2^21 and 2^28
        LoSet ==
            {lo \in UNION {(b - ValueSpread)..(b + ValueSpread) : b \in {0, 2^7, 2^14, 2^21, 2^28}} :
                lo >= 0 /\ lo < LimbBase}
        \* high limbs: 15 with a full low limb is 2^32 - 1; 16 and above are wider than 32 bits
        HiSet == {0, 1, 7, 8, 15, 16, 127, 128}
        \* negative integers: -1, one below a group boundary, one of two limbs
        Negatives == {PyInt(0 - 1), PyInt(0 - 129), PyIntParts(TRUE, 1, 0)}
    IN
        {PyIntParts(FALSE, hi, lo) : hi \in HiSet, lo \in LoSet} \cup Negatives

-----------------------------------------------------------------------------
(* Specification of the VarInt codec: one call of encode, optionally       *)
(* followed by decode of its output, or one call of decode on a buffer.    *)

\* no VarInt call is in progress
VarIntIdle ==
    /\ value = [t |-> "int", neg |-> FALSE, mag |-> <<>>]
    /\ data = <<>>
    /\ offset = 0
    /\ encoded = None
    /\ decoded = None

\* the fuzzer as constructed where no packet structures file is; no packet is being built
BuilderIdle ==
    /\ packet_id = <<>>
    /\ field_values = <<>>
    /\ packet = None
    /\ packet_structures_file = [file |-> "missing"]
    /\ packet_definitions = LoadPacketDefinitions(packet_structures_file)

\* no HytalePacket has been constructed
PacketIdle ==
    /\ raw_data = <<>>
    /\ hp_packet_id = None
    /\ hp_payload = None
    /\ hp_result = None
    /\ analysis = None

\* the fuzzer as constructed, no fuzz_packet call made
FuzzIdle ==
    /\ mutations_generated = 0
    /\ fuzz_packet_id = <<>>
    /\ base_values = None
    /\ mutations = None
    /\ gen_field = 0
    /\ gen_mutation = 0
    /\ last_item = None
    /\ yielded = <<>>
    /\ total_yielded = 0
    /\ fuzz_calls = 0
    /\ gen_field_values = None
    /\ base_values_before = None
    /\ earlier_run = None

\* the tracer as constructed
TracerIdle ==
    /\ transitions = <<>>
    /\ invalid_transitions = <<>>
    /\ current_phase = "INIT"
    /\ now = 0
    /\ tracer_result = None

Init ==
    /\ TracerIdle
    /\ BuilderIdle
    /\ PacketIdle
    /\ FuzzIdle
    /\ encoded = None
    /\ decoded = None
    /\ \/ /\ pc = "encode_call"
          /\ value \in ValueSet
          /\ data = <<>>
          /\ offset = 0
       \/ /\ pc = "decode_call"
          /\ value = PyZero
          /\ data \in BufferSet
          /\ offset \in 0..(Len(data) + 1)

Encode ==
    /\ pc = "encode_call"
    /\ encoded' = VarIntEncode(value)
    /\ pc' = "encoded"
    /\ UNCHANGED <<value, data, offset, decoded, builderVars, packetVars, fuzzVars, analysis, tracerVars>>

DecodeEncoded ==
    /\ pc = "encoded"
    /\ encoded.st = "return"
    /\ data' = encoded.val
    /\ offset' = 0
    /\ decoded' = VarIntDecode(encoded.val, 0)
    /\ pc' = "roundtrip"
    /\ UNCHANGED <<value, encoded, builderVars, packetVars, fuzzVars, analysis, tracerVars>>

Decode ==
    /\ pc = "decode_call"
    /\ decoded' = VarIntDecode(data, offset)
    /\ pc' = "decoded"
    /\ UNCHANGED <<value, data, offset, encoded, builderVars, packetVars, fuzzVars, analysis, tracerVars>>

Next == Encode \/ DecodeEncoded \/ Decode

Spec == Init /\ [][Next]_vars

-----------------------------------------------------------------------------
(* Inputs of the packet builder and of the packet decoder.                 *)

\* longest hp_payload of the short raw packets
MaxPayloadLen == 2
\* the short raw packets carry every identifier from 0 to this one
MaxRawId == 16

Absent == [t |-> "absent"]

\* the field-map with the entries of full that are not Absent
FieldMap(full) == [n \in {m \in DOMAIN full : full[m] # Absent} |-> full[n]]

SampleUuid == <<222, 173, 190, 239, 0, 0, 0, 0, 0, 0, 0, 0, 0, 0, 0, 1>>
TestUuid == <<161, 178, 195, 212, 229, 246, 167, 184, 201, 208, 225, 242, 163, 180, 197, 214>>

F100 == PyFloat(FALSE, 100, 0)
F64 == PyFloat(FALSE, 64, 0)
F180 == PyFloat(FALSE, 180, 0)
\* 2^24 + 1 and -1/3 rounded to 30 bits: doubles that binary32 cannot hold
FOdd == PyFloat(FALSE, 16777217, 0)
FThird == PyFloat(TRUE, 357913941, 0 - 30)

MovementMaps ==
    LET
        PlayerIdValues ==
            {Absent, PyStr(BytesHex(SampleUuid).val), PyBytes(TestUuid),
             PyStr(<<97, 98, 99>>), PyBytes(<<97, 98>>), PyInt(5)}
        PositionValues ==
            {Absent, PyTuple(<<F100, F64, F100>>), PyTuple(<<PyInt(1), PyInt(2)>>),
             PyTuple(<<PyInt(0), PyInt(0), PyInt(0)>>), PyTuple(<<FOdd, F64, FThird>>)}
        VelocityValues == {Absent, PyTuple(<<FloatZero, FloatZero, FloatZero>>)}
        YawValues == {Absent, F180, FOdd, PyStr(<<120>>)}
        PitchValues == {Absent, FloatZero}
        FlagsValues == {Absent, PyInt(0), PyInt(2), PyInt(34), PyInt(255), PyInt(256), PyInt(0 - 1)}
        TickValues == {Absent, PyInt(1000), PyIntParts(FALSE, 15, LimbBase - 1), PyIntParts(FALSE, 16, 0)}
    IN
        {FieldMap(("playerID" :> p) @@ ("position" :> pos) @@ ("velocity" :> vel)
                  @@ ("yaw" :> yaw) @@ ("pitch" :> pitch) @@ ("flags" :> fl) @@ ("tick" :> tick)) :
            p \in PlayerIdValues, pos \in PositionValues, vel \in VelocityValues,
            yaw \in YawValues, pitch \in PitchValues, fl \in FlagsValues, tick \in TickValues}

HelloWorld == <<72, 101, 108, 108, 111, 32, 87, 111, 114, 108, 100>>

ChatMaps ==
    LET
        MessageLengthValues == {Absent, PyInt(0), PyInt(11), PyIntParts(FALSE, 15, LimbBase - 1)}
        MessageValues == {Absent, PyStr(<<>>), PyStr(HelloWorld), PyStr(<<233>>), PyInt(5)}
        TimestampValues ==
            {Absent, PyInt(0), [t |-> "int", neg |-> FALSE, mag |-> <<LimbBase - 1, LimbBase - 1, 255>>],
             [t |-> "int", neg |-> FALSE, mag |-> <<0, 0, 256>>]}
    IN
        {FieldMap(("playerID" :> p) @@ ("messageLength" :> len) @@ ("message" :> msg)
                  @@ ("timestamp" :> ts)) :
            p \in {Absent, PyBytes(TestUuid)}, len \in MessageLengthValues,
            msg \in MessageValues, ts \in TimestampValues}

FieldMapsOf(id) == IF id = Id01 THEN MovementMaps ELSE IF id = Id03 THEN ChatMaps ELSE {<<>>}

RawPacketSet ==
    LET
        Prefixes(bs) == {SubSeq(bs, 1, n) : n \in 0..Len(bs)}
        \* the movement and chat packets of test_decoder.py
        SampleMovement ==
            <<1>> \o TestUuid \o <<66, 201, 0, 0, 66, 128, 0, 0, 67, 72, 0, 0>> \o Zeros(12)
            \o <<67, 52, 0, 0>> \o Zeros(4) \o <<2>> \o <<0, 0, 48, 57>>
        SampleChat ==
            <<3>> \o TestUuid \o <<11>> \o HelloWorld \o <<0, 0, 1, 141, 18, 52, 171, 205>>
        \* one well-formed packet for each of the other decoders
        SampleBlockInteraction ==
            <<5>> \o TestUuid \o <<0, 0, 0, 10, 255, 255, 255, 254, 0, 0, 1, 0>> \o <<2, 1>>
        SampleEntitySpawn ==
            <<8>> \o <<0, 0, 0, 7>> \o <<0, 1>> \o <<66, 200, 0, 0, 66, 128, 0, 0, 66, 200, 0, 0>>
            \o <<67, 52, 0, 0>> \o Zeros(4)
        SampleGamePhaseChange == <<15>> \o <<3>> \o <<0, 0, 117, 48>> \o <<5, 78, 105, 103, 104, 116>>
        \* chat packets with an empty, a two-byte and an ill-encoded message, a length in
        \* two bytes, and a byte after the timestamp
        ChatPackets ==
            {<<3>> \o TestUuid \o body \o ts \o rest :
                body \in {<<0>>, <<2, 195, 169>>, <<128, 0>>, <<1, 255>>},
                ts \in {Zeros(8), <<255, 255, 255, 255, 255, 255, 255, 255>>},
                rest \in {<<>>, <<7>>}}
        ShortPackets ==
            {VarIntEncode(PyInt(id)).val \o body :
                id \in (0..MaxRawId) \cup {128, 300}, body \in SeqsUpTo({0, 65, 255}, MaxPayloadLen)}
    IN
        Prefixes(SampleMovement) \cup Prefixes(SampleChat) \cup Prefixes(SampleBlockInteraction)
        \cup Prefixes(SampleEntitySpawn) \cup Prefixes(SampleGamePhaseChange) \cup ChatPackets \cup ShortPackets

-----------------------------------------------------------------------------
(* Specification of the packet codec: build_packet on a field-map, the     *)
(* packet handed to a HytalePacket, parse and decode; or a HytalePacket    *)
(* constructed on bytes taken from the network.                            *)

InitPacket ==
    /\ TracerIdle
    /\ VarIntIdle
    /\ FuzzIdle
    /\ hp_packet_id = None
    /\ hp_payload = None
    /\ hp_result = None
    /\ analysis = None
    /\ \/ /\ pc = "build_call"
          /\ packet_id \in {Id01, Id03, Id07}
          /\ field_values \in FieldMapsOf(packet_id)
          /\ packet = None
          /\ packet_structures_file = [file |-> "missing"]
          /\ packet_definitions = LoadPacketDefinitions(packet_structures_file)
          /\ raw_data = <<>>
       \/ /\ pc = "fuzzer_call"
          /\ packet_id \in {Id03, Id07}
          /\ field_values \in FieldMapsOf(packet_id)
          /\ packet = None
          /\ packet_structures_file \in SchemaSources
          /\ packet_definitions = None
          /\ raw_data = <<>>
       \/ /\ pc = "constructed"
          /\ BuilderIdle
          /\ raw_data \in RawPacketSet

\* fuzzer = IntegratedFuzzer(packet_structures_file): no fuzzer is made when the
\* constructor raises
IntegratedFuzzerInit ==
    /\ pc = "fuzzer_call"
    /\ packet_definitions' = LoadPacketDefinitions(packet_structures_file)
    /\ pc' = IF packet_definitions'.st = "return" THEN "build_call" ELSE "fuzzer_failed"
    /\ UNCHANGED <<packet_id, field_values, packet, packet_structures_file, varintVars,
                   packetVars, fuzzVars, analysis, tracerVars>>

\* packet = fuzzer.build_packet(packet_id, field_values)
BuildPacketCall ==
    /\ pc = "build_call"
    /\ packet_definitions = Return(PacketDefinitions)
    /\ packet' = BuildPacket(packet_id, field_values)
    /\ pc' = "built"
    /\ UNCHANGED <<packet_id, field_values, packet_structures_file, packet_definitions, varintVars, packetVars, fuzzVars, analysis, tracerVars>>

\* hp = HytalePacket(packet)
Construct ==
    /\ pc = "built"
    /\ packet.st = "return"
    /\ raw_data' = packet.val
    /\ pc' = "constructed"
    /\ UNCHANGED <<hp_packet_id, hp_payload, hp_result, varintVars, builderVars, fuzzVars, analysis, tracerVars>>

\* hp.parse()
Parse ==
    /\ pc = "constructed"
    /\ LET r == HytalePacketParse(raw_data)
       IN  IF r.st = "return"
           THEN /\ hp_packet_id' = r.val.packet_id
                /\ hp_payload' = r.val.payload
                /\ hp_result' = Return(None)
                /\ pc' = "parsed"
           ELSE /\ hp_result' = r
                /\ pc' = "parse_failed"
                /\ UNCHANGED <<hp_packet_id, hp_payload>>
    /\ UNCHANGED <<raw_data, varintVars, builderVars, fuzzVars, analysis, tracerVars>>

\* hp.decode(), after parse() or without it
DecodeCall ==
    /\ pc \in {"constructed", "parsed"}
    /\ hp_result' = HytalePacketDecode(hp_packet_id, hp_payload)
    /\ pc' = "decode_done"
    /\ UNCHANGED <<raw_data, hp_packet_id, hp_payload, varintVars, builderVars, fuzzVars, analysis, tracerVars>>

\* fuzzer.analyze_packet(packet_bytes) on the bytes built or taken from the network; the
\* HytalePacket it makes is its own
AnalyzePacketCall ==
    /\ pc = "constructed"
    /\ analysis' = AnalyzePacket(raw_data)
    /\ pc' = "analyzed"
    /\ UNCHANGED <<varintVars, builderVars, packetVars, fuzzVars, tracerVars>>

NextPacket == IntegratedFuzzerInit \/ BuildPacketCall \/ Construct \/ Parse \/ DecodeCall \/ AnalyzePacketCall

SpecPacket == InitPacket /\ [][NextPacket]_vars

-----------------------------------------------------------------------------
(* Specification of the fuzzer: calls of fuzz_packet on one fuzzer, each   *)
(* returning a generator that the caller advances with next() and may      *)
(* leave at any element.                                                   *)

\* number of fuzz_packet calls on the fuzzer
MaxFuzzCalls == 2

MutationListsOf(id) ==
    LET
        MutationKinds == {"overflow", "underflow", "null", "edge_case", "bit_flip"}
        MutationLists ==
            {None, PyList(<<>>)} \cup {PyList(<<k>>) : k \in MutationKinds}
            \cup {PyList(<<k1, k2>>) : k1 \in MutationKinds, k2 \in MutationKinds}
        \* the lists tried on the chat packet, whose edge case is a text of 10000 characters
        ChatMutationLists ==
            {None, PyList(<<>>)} \cup {PyList(<<k>>) : k \in MutationKinds}
            \cup {PyList(<<k1, k2>>) : k1 \in MutationKinds \ {"edge_case"},
                                       k2 \in {"overflow", "null"}}
    IN
        IF id = Id03 THEN ChatMutationLists ELSE MutationLists

BaseValuesOf(id) ==
    LET
        FullMovement ==
            ("playerID" :> PyBytes(TestUuid)) @@ ("position" :> PyTuple(<<F100, F64, F100>>))
            @@ ("velocity" :> PyTuple(<<FloatZero, FloatZero, FloatZero>>)) @@ ("yaw" :> F180)
            @@ ("pitch" :> FloatZero) @@ ("flags" :> PyInt(2)) @@ ("tick" :> PyInt(1000))
    IN
        IF id = Id01
        THEN {None, PyDict(<<>>), PyDict(FullMovement),
              PyDict("playerID" :> PyStr(<<97, 98, 99>>)), PyDict("flags" :> PyInt(256))}
        ELSE IF id = Id03
        THEN {None, PyDict(("message" :> PyStr(HelloWorld)) @@ ("playerID" :> PyBytes(TestUuid))),
              PyDict("messageLength" :> PyInt(0 - 1)), PyDict("timestamp" :> Two64)}
        ELSE {None, PyDict(<<>>)}

InitFuzz ==
    /\ pc = "fuzz_idle"
    /\ TracerIdle
    /\ VarIntIdle
    /\ BuilderIdle
    /\ PacketIdle
    /\ FuzzIdle

\* mutant: the counter is one of the call, set to zero when a generator is created
FuzzPacketCallResetsCounter ==
    /\ pc \in {"fuzz_idle", "fuzz_created", "fuzz_suspended", "fuzz_exhausted"}
    /\ fuzz_calls < MaxFuzzCalls
    /\ \E id \in {Id01, Id03, Id07} :
          \E base \in BaseValuesOf(id), muts \in MutationListsOf(id) :
             /\ fuzz_packet_id' = id
             /\ base_values' = base
             /\ base_values_before' = base
             /\ mutations' = muts
             /\ earlier_run' =
                    IF /\ pc = "fuzz_exhausted"
                       /\ <<id, base, muts>> = <<fuzz_packet_id, base_values, mutations>>
                    THEN [pairs |-> yielded,
                          mutations_generated |-> 0]
                    ELSE None
    /\ gen_field' = 1
    /\ gen_mutation' = 0
    /\ last_item' = None
    /\ gen_field_values' = None
    /\ yielded' = <<>>
    /\ fuzz_calls' = fuzz_calls + 1
    /\ pc' = "fuzz_created"
    /\ mutations_generated' = 0
    /\ UNCHANGED <<total_yielded, varintVars, builderVars, packetVars, analysis, tracerVars>>

\* gen = fuzzer.fuzz_packet(packet_id, base_values, mutations): the generator is
\* created, none of its body runs; a generator the caller held is left where it was.
\* earlier_run observes the generator being replaced when that one is exhausted and the
\* call repeats its arguments.
FuzzPacketCall ==
    /\ pc \in {"fuzz_idle", "fuzz_created", "fuzz_suspended", "fuzz_exhausted"}
    /\ fuzz_calls < MaxFuzzCalls
    /\ \E id \in {Id01, Id03, Id07} :
          \E base \in BaseValuesOf(id), muts \in MutationListsOf(id) :
             /\ fuzz_packet_id' = id
             /\ base_values' = base
             /\ base_values_before' = base
             /\ mutations' = muts
             /\ earlier_run' =
                    IF /\ pc = "fuzz_exhausted"
                       /\ <<id, base, muts>> = <<fuzz_packet_id, base_values, mutations>>
                    THEN [pairs |-> yielded,
                          mutations_generated |-> mutations_generated - Len(yielded)]
                    ELSE None
    /\ gen_field' = 1
    /\ gen_mutation' = 0
    /\ last_item' = None
    /\ gen_field_values' = None
    /\ yielded' = <<>>
    /\ fuzz_calls' = fuzz_calls + 1
    /\ pc' = "fuzz_created"
    /\ UNCHANGED <<mutations_generated, total_yielded, varintVars, builderVars, packetVars, analysis, tracerVars>>

\* next(gen): the body runs to its next yield, and mutations_generated is incremented
\* on the way; or it runs to its end; or build_packet never returns
FuzzNextCall ==
    /\ pc \in {"fuzz_created", "fuzz_suspended"}
    /\ \E r \in {FuzzPacketResume(fuzz_packet_id, BaseValuesOrEmpty(base_values),
                                   MutationsOrDefault(mutations), gen_field, gen_mutation + 1)} :
           /\ base_values' =
                  IF base_values = None \/ DOMAIN base_values.val = {} THEN base_values
                  ELSE PyDict(r.base_values)
           /\ CASE r.st = "yield" ->
                  /\ mutations_generated' = mutations_generated + 1
                  /\ gen_field' = r.field
                  /\ gen_mutation' = r.mutation
                  /\ last_item' = r.item
                  /\ gen_field_values' = r.field_values
                  /\ yielded' = Append(yielded, <<r.item[2].mutated_field, r.item[2].mutation_type>>)
                  /\ total_yielded' = total_yielded + 1
                  /\ pc' = "fuzz_suspended"
              [] r.st = "stop" ->
                  /\ pc' = "fuzz_exhausted"
                  /\ UNCHANGED <<mutations_generated, gen_field, gen_mutation, last_item,
                                 gen_field_values, yielded, total_yielded>>
              [] OTHER ->
                  /\ pc' = "fuzz_diverged"
                  /\ UNCHANGED <<mutations_generated, gen_field, gen_mutation, last_item,
                                 gen_field_values, yielded, total_yielded>>
    /\ UNCHANGED <<fuzz_packet_id, base_values_before, mutations, fuzz_calls, earlier_run,
                   varintVars, builderVars, packetVars, analysis, tracerVars>>

NextFuzz == FuzzPacketCall \/ FuzzNextCall

SpecFuzz == InitFuzz /\ [][NextFuzz]_vars

-----------------------------------------------------------------------------
(* StateTracer: the phases, the two tables, and its methods. Timestamps   *)
(* are whole milliseconds.                                                 *)

\* class GamePhase, by member name
GamePhases ==
    {"INIT", "AUTH_PENDING", "AUTH_COMPLETE", "LOBBY", "DAY", "VOTING", "NIGHT", "END", "DEAD"}

\* self.valid_transitions
ValidTransitions ==
    [phase \in GamePhases |->
        CASE phase = "INIT" -> <<"AUTH_PENDING">>
          [] phase = "AUTH_PENDING" -> <<"AUTH_COMPLETE", "INIT">>
          [] phase = "AUTH_COMPLETE" -> <<"LOBBY", "INIT">>
          [] phase = "LOBBY" -> <<"DAY", "INIT">>
          [] phase = "DAY" -> <<"VOTING", "DEAD", "END">>
          [] phase = "VOTING" -> <<"NIGHT", "END">>
          [] phase = "NIGHT" -> <<"DAY", "END", "DEAD">>
          [] phase = "END" -> <<"LOBBY", "INIT">>
          [] phase = "DEAD" -> <<"LOBBY", "INIT">>]

\* self.phase_restricted_packets
PhaseRestrictedPackets ==
    ("INIT" :> <<"MOVEMENT", "CHAT", "BLOCK_INTERACTION">>)
    @@ ("AUTH_PENDING" :> <<"MOVEMENT", "BLOCK_INTERACTION">>)
    @@ ("LOBBY" :> <<"BLOCK_INTERACTION">>)
    @@ ("VOTING" :> <<"MOVEMENT", "BLOCK_INTERACTION">>)

\* the race window of detect_race_conditions, 0.05 s, in milliseconds
RaceWindowMs == 50

\* mutant: the table is read from the to-phase to the from-phase
IsValidTransitionBackwards(from_phase, to_phase) ==
    LET allowed_phases ==
            IF to_phase \in DOMAIN ValidTransitions THEN ValidTransitions[to_phase] ELSE <<>>
    IN  \E i \in 1..Len(allowed_phases) : allowed_phases[i] = from_phase

\* StateTracer._is_valid_transition
IsValidTransition(from_phase, to_phase) ==
    LET allowed_phases ==
            IF from_phase \in DOMAIN ValidTransitions THEN ValidTransitions[from_phase] ELSE <<>>
    IN  \E i \in 1..Len(allowed_phases) : allowed_phases[i] = to_phase

\* mutant: a tracer that refuses an invalid transition, the log and the phase kept
TraceEnforcing(from_phase, to_phase, packet_type, timestamp) ==
    LET is_valid == IsValidTransition(from_phase, to_phase)
        transition ==
            [from_phase |-> from_phase, to_phase |-> to_phase, packet_type |-> packet_type,
             timestamp |-> timestamp, valid |-> is_valid, player_id |-> None,
             additional_data |-> PyDict(<<>>)]
    IN  [transitions |-> IF is_valid THEN Append(transitions, transition) ELSE transitions,
         invalid_transitions |->
             IF is_valid THEN invalid_transitions ELSE Append(invalid_transitions, transition),
         current_phase |-> IF is_valid THEN to_phase ELSE current_phase,
         transition |-> transition]

\* mutant: a tracer that stamps the validity again on the entries it holds, reading the
\* new transition as the one that led to them
TraceRevising(from_phase, to_phase, packet_type, timestamp) ==
    LET is_valid == IsValidTransition(from_phase, to_phase)
        transition ==
            [from_phase |-> from_phase, to_phase |-> to_phase, packet_type |-> packet_type,
             timestamp |-> timestamp, valid |-> is_valid, player_id |-> None,
             additional_data |-> PyDict(<<>>)]
    IN  [transitions |->
             Append([i \in 1..Len(transitions) |->
                        [transitions[i] EXCEPT !.valid = @ /\ is_valid]], transition),
         invalid_transitions |->
             IF is_valid THEN invalid_transitions ELSE Append(invalid_transitions, transition),
         current_phase |-> to_phase,
         transition |-> transition]

\* StateTracer.trace with player_id and additional_data left to their defaults, at the
\* time.time() it reads: the lists and the phase as the call leaves them, and the
\* transition it returns
\* mutant: an invalid transition is kept in invalid_transitions only
TraceInvalidApart(from_phase, to_phase, packet_type, timestamp) ==
    LET is_valid == IsValidTransition(from_phase, to_phase)
        transition ==
            [from_phase |-> from_phase, to_phase |-> to_phase, packet_type |-> packet_type,
             timestamp |-> timestamp, valid |-> is_valid, player_id |-> None,
             additional_data |-> PyDict(<<>>)]
    IN  [transitions |-> IF is_valid THEN Append(transitions, transition) ELSE transitions,
         invalid_transitions |->
             IF is_valid THEN invalid_transitions ELSE Append(invalid_transitions, transition),
         current_phase |-> to_phase,
         transition |-> transition]

Trace(from_phase, to_phase, packet_type, timestamp) ==
    LET is_valid == IsValidTransition(from_phase, to_phase)
        transition ==
            [from_phase |-> from_phase, to_phase |-> to_phase, packet_type |-> packet_type,
             timestamp |-> timestamp, valid |-> is_valid, player_id |-> None,
             additional_data |-> PyDict(<<>>)]
    IN  [transitions |-> Append(transitions, transition),
         invalid_transitions |->
             IF is_valid THEN invalid_transitions ELSE Append(invalid_transitions, transition),
         current_phase |-> to_phase,
         transition |-> transition]

\* mutant: the denylist of the tracer's current phase is the one consulted
CheckPacketValidityOfCurrentPhase(phase, packet_type) ==
    LET restricted ==
            IF current_phase \in DOMAIN PhaseRestrictedPackets
            THEN PhaseRestrictedPackets[current_phase] ELSE <<>>
    IN  ~ \E i \in 1..Len(restricted) : restricted[i] = packet_type

\* StateTracer.check_packet_validity
CheckPacketValidity(phase, packet_type) ==
    LET restricted ==
            IF phase \in DOMAIN PhaseRestrictedPackets
            THEN PhaseRestrictedPackets[phase] ELSE <<>>
    IN  ~ \E i \in 1..Len(restricted) : restricted[i] = packet_type

\* mutant: one anomaly for every transition of the log, valid or not
InvalidTransitionAnomaliesOfLog(log) ==
    [k \in 1..Len(transitions) |->
        [type |-> "INVALID_TRANSITION_ACCEPTED", severity |-> "HIGH",
         from_phase |-> transitions[k].from_phase, to_phase |-> transitions[k].to_phase,
         packet_type |-> transitions[k].packet_type, timestamp |-> transitions[k].timestamp]]

\* detect_race_conditions, first loop: one anomaly for each entry of invalid_transitions
InvalidTransitionAnomalies(log) ==
    [k \in 1..Len(log) |->
        [type |-> "INVALID_TRANSITION_ACCEPTED", severity |-> "HIGH",
         from_phase |-> log[k].from_phase, to_phase |-> log[k].to_phase,
         packet_type |-> log[k].packet_type, timestamp |-> log[k].timestamp]]

\* mutant: a pair exactly the race window apart is rapid too
RapidTransitionAnomaliesInclusive(log) ==
    LET Rapid(i) == log[i + 1].timestamp - log[i].timestamp <= RaceWindowMs
        found == SelectSeq([i \in 1..(Len(log) - 1) |-> i], Rapid)
    IN  [k \in 1..Len(found) |->
            [type |-> "RAPID_TRANSITION", severity |-> "MEDIUM",
             transition_1 |-> <<log[found[k]].from_phase, log[found[k]].to_phase>>,
             transition_2 |-> <<log[found[k] + 1].from_phase, log[found[k] + 1].to_phase>>,
             time_diff_ms |-> log[found[k] + 1].timestamp - log[found[k]].timestamp]]

\* detect_race_conditions, second loop: the consecutive entries of the log whose
\* timestamps, the later minus the earlier, are less than the race window apart
RapidTransitionAnomalies(log) ==
    LET Rapid(i) == log[i + 1].timestamp - log[i].timestamp < RaceWindowMs
        found == SelectSeq([i \in 1..(Len(log) - 1) |-> i], Rapid)
    IN  [k \in 1..Len(found) |->
            [type |-> "RAPID_TRANSITION", severity |-> "MEDIUM",
             transition_1 |-> <<log[found[k]].from_phase, log[found[k]].to_phase>>,
             transition_2 |-> <<log[found[k] + 1].from_phase, log[found[k] + 1].to_phase>>,
             time_diff_ms |-> log[found[k] + 1].timestamp - log[found[k]].timestamp]]

\* detect_race_conditions, third loop: the windows of three entries that chain and end
\* in the phase the first one left
PhaseLoopAnomalies(log) ==
    LET Loop(i) == /\ log[i].from_phase = log[i + 2].to_phase
                   /\ log[i].to_phase = log[i + 1].from_phase
                   /\ log[i + 1].to_phase = log[i + 2].from_phase
        found == SelectSeq([i \in 1..(Len(log) - 2) |-> i], Loop)
    IN  [k \in 1..Len(found) |->
            [type |-> "PHASE_LOOP", severity |-> "MEDIUM",
             pattern |-> <<log[found[k]].from_phase, log[found[k]].to_phase,
                           log[found[k]].from_phase>>]]

\* StateTracer.get_statistics; the percentage is kept as the quotient it is computed from
GetStatistics ==
    LET total == Len(transitions)
        invalid == Len(invalid_transitions)
        names == {transitions[i].to_phase : i \in 1..total}
    IN  [total_transitions |-> total,
         invalid_transitions |-> invalid,
         invalid_percentage |->
             IF total > 0 THEN [quotient |-> <<invalid, total>>, times |-> 100] ELSE 0,
         phase_distribution |->
             [name \in names |-> Cardinality({i \in 1..total : transitions[i].to_phase = name})],
         current_phase |-> current_phase]

-----------------------------------------------------------------------------
(* Specification of the tracer: calls of its methods in any order, the     *)
(* clock read by trace stepping between them.                              *)

\* longest transition log
MaxTransitions == 3

\* the trace calls tried: the two of the normal flow that the tests name, and pairs that
\* chain to a loop over two phases and to one over three
TraceInputs ==
    {<<"INIT", "AUTH_PENDING", "AUTH_REQUEST">>, <<"END", "DAY", "INVALID_PACKET">>,
     <<"DAY", "END", "GAME_END">>, <<"VOTING", "END", "GAME_END">>}

\* what time.time() has advanced by since it was read last, in milliseconds: inside the
\* race window, exactly the window, and outside it; the clock is not set back
ClockSteps == {10, 50, 200}

InitTracer ==
    /\ pc = "tracer"
    /\ VarIntIdle
    /\ BuilderIdle
    /\ PacketIdle
    /\ FuzzIdle
    /\ TracerIdle

\* tracer.trace(from_phase, to_phase, packet_type)
TraceCall ==
    /\ pc = "tracer"
    /\ pc' = "tracer_returned"
    /\ Len(transitions) < MaxTransitions
    /\ \E call \in TraceInputs, step \in ClockSteps :
          \E r \in {Trace(call[1], call[2], call[3], now + step)} :
             /\ transitions' = r.transitions
             /\ invalid_transitions' = r.invalid_transitions
             /\ current_phase' = r.current_phase
             /\ now' = now + step
             /\ tracer_result' = [call |-> "trace", returned |-> r.transition]
    /\ UNCHANGED <<varintVars, builderVars, packetVars, fuzzVars, analysis>>

\* tracer.check_packet_validity(phase, packet_type)
CheckPacketValidityCall ==
    /\ pc = "tracer"
    /\ pc' = "tracer_returned"
    /\ \E phase \in GamePhases,
          packet_type \in {"MOVEMENT", "CHAT", "BLOCK_INTERACTION", "AUTH_REQUEST"} :
          tracer_result' = [call |-> "check_packet_validity", phase |-> phase,
                            packet_type |-> packet_type,
                            returned |-> CheckPacketValidity(phase, packet_type)]
    /\ UNCHANGED <<transitions, invalid_transitions, current_phase, now, varintVars,
                   builderVars, packetVars, fuzzVars, analysis>>

\* tracer.detect_race_conditions(): the anomalies of its three loops, the description
\* texts left out
DetectRaceConditionsCall ==
    /\ pc = "tracer"
    /\ pc' = "tracer_returned"
    /\ tracer_result' =
           [call |-> "detect_race_conditions",
            returned |-> InvalidTransitionAnomalies(invalid_transitions)
                         \o RapidTransitionAnomalies(transitions)
                         \o PhaseLoopAnomalies(transitions)]
    /\ UNCHANGED <<transitions, invalid_transitions, current_phase, now, varintVars,
                   builderVars, packetVars, fuzzVars, analysis>>

\* tracer.get_statistics()
GetStatisticsCall ==
    /\ pc = "tracer"
    /\ pc' = "tracer_returned"
    /\ tracer_result' = [call |-> "get_statistics", returned |-> GetStatistics]
    /\ UNCHANGED <<transitions, invalid_transitions, current_phase, now, varintVars,
                   builderVars, packetVars, fuzzVars, analysis>>

\* tracer.simulate_race_condition_test(test_scenario): two of the scenarios trace a
\* transition, the third sleeps a millisecond after it
SimulateRaceConditionTestCall ==
    /\ pc = "tracer"
    /\ pc' = "tracer_returned"
    /\ \/ /\ Len(transitions) < MaxTransitions
          /\ \E step \in ClockSteps :
                \E r \in {Trace("DAY", "AUTH_COMPLETE", "AUTH_RESPONSE", now + step)} :
                   /\ transitions' = r.transitions
                   /\ invalid_transitions' = r.invalid_transitions
                   /\ current_phase' = r.current_phase
                   /\ now' = now + step
                   /\ tracer_result' =
                          [call |-> "simulate_race_condition_test",
                           scenario |-> "auth_during_game",
                           returned |-> IF r.transitions[Len(r.transitions)].valid
                                        THEN "VULNERABILITY" ELSE "SECURE"]
       \/ /\ tracer_result' =
                 [call |-> "simulate_race_condition_test",
                  scenario |-> "block_during_voting",
                  returned |-> IF CheckPacketValidity("VOTING", "BLOCK_INTERACTION")
                               THEN "VULNERABILITY" ELSE "SECURE"]
          /\ UNCHANGED <<transitions, invalid_transitions, current_phase, now>>
       \/ /\ Len(transitions) < MaxTransitions
          /\ \E step \in ClockSteps :
                \E r \in {Trace("DAY", "VOTING", "PHASE_CHANGE", now + step)} :
                   /\ transitions' = r.transitions
                   /\ invalid_transitions' = r.invalid_transitions
                   /\ current_phase' = r.current_phase
                   /\ now' = now + step + 1
                   /\ tracer_result' =
                          [call |-> "simulate_race_condition_test",
                           scenario |-> "movement_during_transition",
                           returned |-> IF CheckPacketValidity("VOTING", "MOVEMENT")
                                        THEN "VULNERABILITY" ELSE "SECURE"]
       \/ /\ tracer_result' =
                 [call |-> "simulate_race_condition_test", scenario |-> "other",
                  returned |-> "UNKNOWN"]
          /\ UNCHANGED <<transitions, invalid_transitions, current_phase, now>>
    /\ UNCHANGED <<varintVars, builderVars, packetVars, fuzzVars, analysis>>

\* the caller has taken what the call returned
TracerReturn ==
    /\ pc = "tracer_returned"
    /\ pc' = "tracer"
    /\ tracer_result' = None
    /\ UNCHANGED <<transitions, invalid_transitions, current_phase, now, varintVars,
                   builderVars, packetVars, fuzzVars, analysis>>

NextTracer ==
    \/ TracerReturn
    \/ TraceCall
    \/ CheckPacketValidityCall
    \/ DetectRaceConditionsCall
    \/ GetStatisticsCall
    \/ SimulateRaceConditionTestCall

SpecTracer == InitTracer /\ [][NextTracer]_vars

-----------------------------------------------------------------------------
(* Properties of the VarInt codec.                                         *)

InU32(v) == ~v.neg /\ (Len(v.mag) <= 1 \/ (Len(v.mag) = 2 /\ v.mag[2] < 16))

HasContinuationBit(byte) == BitAnd(byte, 128) # 0

\* C1: for every v in 0 .. 2^32 - 1, decoding encode(v) at offset 0 returns v and
\* the number of bytes of encode(v).
C1_RoundTrip ==
    (pc = "roundtrip" /\ InU32(value))
        => decoded = Return(<<value, Len(encoded.val)>>)

C1_Witness ==
    /\ pc = "roundtrip"
    /\ value = PyIntParts(FALSE, 15, LimbBase - 1)
    /\ decoded = Return(<<value, 5>>)

\* C2: decode raises whenever every byte from offset to the end of the buffer has the
\* continuation bit set; this covers [0xFF] and an offset at or past the end.
C2_TruncatedRaises ==
    (pc = "decoded" /\ \A i \in (offset + 1)..Len(data) : HasContinuationBit(data[i]))
        => decoded = Raise("ValueError")

C2_Witness ==
    /\ pc = "decoded"
    /\ data = <<255>>
    /\ offset = 0
    /\ decoded = Raise("ValueError")

\* C3: whenever decode returns (value, new_offset), new_offset - offset <= 5, and a
\* buffer whose first five bytes from offset all have the continuation bit set is
\* not decoded to a value.
C3_ConsumesAtMostFive ==
    (pc = "decoded" /\ decoded.st = "return")
        => /\ decoded.val[2] - offset <= 5
           /\ ~(/\ Len(data) >= offset + 5
                /\ \A i \in (offset + 1)..(offset + 5) : HasContinuationBit(data[i]))

\* C4: for every v >= 0, encode(v) is the shortest encoding: every byte but the last
\* has the high bit set, the last has it clear, and the last is zero only for v = 0.
C4_Minimal ==
    (pc \in {"encoded", "roundtrip"} /\ ~value.neg)
        => /\ encoded.st = "return"
           /\ Len(encoded.val) >= 1
           /\ \A i \in 1..(Len(encoded.val) - 1) : HasContinuationBit(encoded.val[i])
           /\ ~HasContinuationBit(encoded.val[Len(encoded.val)])
           /\ (encoded.val[Len(encoded.val)] = 0 => (value = PyZero /\ encoded.val = <<0>>))

C4_Witness ==
    /\ pc = "encoded"
    /\ value = PyInt(2^14)
    /\ encoded = Return(<<128, 128, 1>>)

-----------------------------------------------------------------------------
(* Properties of the packet decoder.                                       *)

KnownPacketIds ==
    {PyInt(MOVEMENT), PyInt(CHAT), PyInt(BLOCK_INTERACTION), PyInt(ENTITY_SPAWN),
     PyInt(GAME_PHASE_CHANGE)}

\* C5: for every byte string whose packet identifier is known, decode never raises
\* when a field cannot be read: it returns a result that holds an error marker.
C5_DecodeNeverRaises ==
    (pc = "decode_done" /\ hp_packet_id \in KnownPacketIds)
        => /\ hp_result.st = "return"
           /\ (hp_result.val.type = "MOVEMENT" /\ Len(hp_payload) < 53
                   => "error" \in DOMAIN hp_result.val)

\* C6: decoding a packet whose identifier has no decoder (0x07 included) returns,
\* without raising, a result that has the error entry alone, and the entry names the
\* identifier.
C6_UnknownIdentifier ==
    (pc = "decode_done" /\ hp_packet_id # None /\ hp_packet_id \notin KnownPacketIds)
        => /\ hp_result.st = "return"
           /\ DOMAIN hp_result.val = {"error"}
           /\ hp_result.val.error[1] = "Unknown packet ID: 0x"
           /\ Len(hp_result.val.error[2]) >= 2
           /\ IntBase16(hp_result.val.error[2]) = Return(hp_packet_id)

C6_Witness ==
    /\ pc = "decode_done"
    /\ hp_packet_id = PyInt(ITEM_USE)
    /\ hp_payload = <<65, 255>>
    /\ hp_result = Return([error |-> <<"Unknown packet ID: 0x", <<48, 55>>>>])

-----------------------------------------------------------------------------
(* Properties of the packet builder and of the round trip.                 *)

IsNumber(v) == v.t = "float" \/ (v.t = "int" /\ Len(v.mag) <= 1)
AsFloat(v) == IF v.t = "int" THEN IntToFloat(v) ELSE v

\* the sixteen bytes a player identifier stands for, when it is sixteen bytes or the
\* thirty-two hexadecimal digits of sixteen bytes
IdentifierBytes(v) ==
    IF v.t = "bytes" THEN v.val
    ELSE [i \in 1..16 |-> 16 * HexValue(v.val[2 * i - 1]) + HexValue(v.val[2 * i])]

IsIdentifier16(v) ==
    \/ v.t = "bytes" /\ Len(v.val) = 16
    \/ v.t = "str" /\ Len(v.val) = 32 /\ \A i \in 1..32 : HexValue(v.val[i]) >= 0

IsVector3(v) == v.t = "tuple" /\ Len(v.val) = 3 /\ \A i \in 1..3 : IsNumber(v.val[i])

InRange(v, bits) == v.t = "int" /\ ~v.neg /\ MagBitLen(v.mag) <= bits

\* a full movement field-map with every value in the domain of its field type
FullMovementMap(fv) ==
    /\ DOMAIN fv = {"playerID", "position", "velocity", "yaw", "pitch", "flags", "tick"}
    /\ IsIdentifier16(fv["playerID"])
    /\ IsVector3(fv["position"])
    /\ IsVector3(fv["velocity"])
    /\ IsNumber(fv["yaw"])
    /\ IsNumber(fv["pitch"])
    /\ InRange(fv["flags"], 8)
    /\ InRange(fv["tick"], 32)

\* a number that binary32 holds exactly
Binary32Exact(v) ==
    LET f == AsFloat(v)
    IN  /\ f.kind = "fin"
        /\ (f.m # 0 => /\ BitLen(f.m) <= 24
                       /\ f.x >= 0 - 149
                       /\ f.x + BitLen(f.m) - 1 <= 127)

Reproduced(v, f) == FloatEq(AsFloat(v), f)

\* the components of a decoded vector, in order
Components(d) == <<d.x, d.y, d.z>>

\* the number whose bits are the five decoded flags
FlagsNumber(d) ==
    (IF d.is_jumping THEN 1 ELSE 0) + (IF d.is_sprinting THEN 2 ELSE 0)
    + (IF d.is_crouching THEN 4 ELSE 0) + (IF d.is_swimming THEN 8 ELSE 0)
    + (IF d.is_flying THEN 16 ELSE 0)

\* a movement packet was built from the field-map, parsed and decoded
MovementRoundTripDone ==
    /\ pc = "decode_done"
    /\ packet_id = Id01
    /\ packet # None
    /\ hp_packet_id # None

ZeroValueOf(type) ==
    CASE type = "UUID" -> PyBytes(<<0, 0, 0, 0, 0, 0, 0, 0, 0, 0, 0, 0, 0, 0, 0, 0>>)
      [] type \in {"f32", "f64"} -> PyFloat(FALSE, 0, 0)
      [] type = "Vector3f" -> PyTuple(<<PyFloat(FALSE, 0, 0), PyFloat(FALSE, 0, 0), PyFloat(FALSE, 0, 0)>>)
      [] type = "Vector3i" -> PyTuple(<<PyInt(0), PyInt(0), PyInt(0)>>)
      [] type = "UTF-8" -> PyStr(<<>>)
      [] OTHER -> PyInt(0)

\* a value in the domain of a field type
CompatibleValue(type, v) ==
    CASE type = "UUID" -> v.t = "bytes" \/ (v.t = "str" /\ BytesFromHex(RemoveDashes(v.val)).st = "return")
      [] type = "u8" -> InRange(v, 8)
      [] type = "u16" -> InRange(v, 16)
      [] type = "u32" -> InRange(v, 32)
      [] type = "u64" -> InRange(v, 64)
      [] type \in {"f32", "f64"} -> IsNumber(v)
      [] type \in {"Vector3f", "Vector3i"} -> IsVector3(v)
      [] type = "UTF-8" -> v.t = "str"
      [] type = "varint" -> v.t = "int" /\ ~v.neg
      [] OTHER -> TRUE

\* the names of the fields of a packet definition, and the type of a field
FieldNamesOf(id) ==
    {PacketDefinitions[id].fields[i].name : i \in 1..Len(PacketDefinitions[id].fields)}
TypeOfField(id, name) == FieldType(PacketDefinitions[id].fields, name)

\* the field-map with the zero value for every absent field
WithAbsentAsZero(id, fv) ==
    [n \in FieldNamesOf(id) \cup DOMAIN fv |->
        IF n \in DOMAIN fv THEN fv[n] ELSE ZeroValueOf(TypeOfField(id, n))]

\* the field-map with the zero value in place of every value outside its field's domain
WithIncompatibleAsZero(id, fv) ==
    [n \in DOMAIN fv |->
        IF n \in FieldNamesOf(id) /\ ~CompatibleValue(TypeOfField(id, n), fv[n])
        THEN ZeroValueOf(TypeOfField(id, n)) ELSE fv[n]]

\* C8: build_packet on a known identifier returns packet bytes for every field-map: a
\* value outside the domain of its field type is replaced by the zero value and never
\* aborts the packet.
C8_IncompatibleBecomesDefault ==
    (pc = "built" /\ packet_id \in DOMAIN PacketDefinitions)
        => /\ packet.st = "return"
           /\ packet = BuildPacket(packet_id, WithIncompatibleAsZero(packet_id, field_values))

\* C9: build_packet on a known identifier never fails because a field is absent: the
\* outcome is that of the same field-map with the absent fields set to the zero values,
\* and it is packet bytes whenever every value that is present can be encoded.
C9_AbsentBecomesDefault ==
    (pc = "built" /\ packet_id \in DOMAIN PacketDefinitions)
        => /\ packet = BuildPacket(packet_id, WithAbsentAsZero(packet_id, field_values))
           /\ (\A n \in DOMAIN field_values :
                   EncodeField(TypeOfField(packet_id, n), field_values[n]).st = "return")
                => packet.st = "return"

C9_Witness ==
    /\ pc = "built"
    /\ packet_id = Id01
    /\ field_values = ("tick" :> PyInt(1000))
    /\ packet = Return(<<1>> \o Zeros(49) \o <<0, 0, 3, 232>>)

-----------------------------------------------------------------------------
(* Properties of the fuzzer.                                               *)

\* the pairs (field index, kind index) of the call for which _mutate_value defines a value
DefinedPairs ==
    LET fields == PacketDefinitions[fuzz_packet_id].fields
        base == BaseValuesOrEmpty(base_values)
        muts == MutationsOrDefault(mutations)
    IN  {p \in (1..Len(fields)) \X (1..Len(muts)) :
            MutateValue(fields[p[1]].type, BaseValue(base, fields[p[1]]), muts[p[2]]) # None}

\* C10: for a known packet, the number of elements fuzz_packet yields, once it is
\* exhausted, is the number of (field, kind) pairs for which _mutate_value defines a
\* value.
C10_YieldsEveryDefinedPair ==
    (pc = "fuzz_exhausted" /\ fuzz_packet_id \in DOMAIN PacketDefinitions)
        => Len(yielded) = Cardinality(DefinedPairs)

-----------------------------------------------------------------------------
(* Properties of analyze_packet.                                           *)

\* C13: analyze_packet returns a dictionary for every byte string and never raises:
\* success is false, with the error and the bytes in hexadecimal, exactly when parse()
\* or decode() of a HytalePacket on these bytes raises, as on the empty input, on a
\* VarInt whose bytes all have the continuation bit and on a payload too short for its
\* decoder; otherwise success is true with the formatted identifier and the decoded
\* dictionary.
C13_AnalyzeNeverRaises ==
    pc = "analyzed" =>
        LET parsed == HytalePacketParse(raw_data)
            dec == HytalePacketDecode(parsed.val.packet_id, parsed.val.payload)
            fails == parsed.st = "raise" \/ dec.st = "raise"
        IN  /\ analysis.st = "return"
            /\ analysis.val.success = ~fails
            /\ fails => /\ DOMAIN analysis.val = {"success", "error", "raw_hex"}
                        /\ analysis.val.error = IF parsed.st = "raise" THEN parsed.exc ELSE dec.exc
                        /\ Len(analysis.val.raw_hex.val) = 2 * Len(raw_data)
            /\ ~fails => /\ DOMAIN analysis.val = {"success", "packet_id", "decoded"}
                         /\ analysis.val.decoded = dec.val
            /\ (\A i \in 1..Len(raw_data) : HasContinuationBit(raw_data[i]))
                  => ~analysis.val.success
            /\ (Len(raw_data) = 3 /\ PyInt(raw_data[1]) \in KnownPacketIds)
                  => ~analysis.val.success

\* a movement packet with two payload bytes: the struct.error of the decoder is reported
C13_Witness ==
    /\ pc = "analyzed"
    /\ raw_data = <<1, 0, 0>>
    /\ analysis = Return([success |-> FALSE, error |-> "struct.error",
                          raw_hex |-> PyStr(<<48, 49, 48, 48, 48, 48>>)])

-----------------------------------------------------------------------------
(* Properties of the tracer.                                               *)

\* C14: the validity stamped on every logged transition is true exactly when the
\* to-phase is one of the successors of the from-phase in the table; INIT to
\* AUTH_PENDING is stamped valid, END to DAY invalid, and two entries with the same
\* from-phase and to-phase have the same validity.
C14_ValidityFromTable ==
    /\ \A i \in 1..Len(transitions) :
          LET t == transitions[i]
              successors == {ValidTransitions[t.from_phase][k] :
                                k \in 1..Len(ValidTransitions[t.from_phase])}
          IN  /\ t.valid = (t.to_phase \in successors)
              /\ (t.from_phase = "INIT" /\ t.to_phase = "AUTH_PENDING") => t.valid
              /\ (t.from_phase = "END" /\ t.to_phase = "DAY") => ~t.valid
    /\ \A i, j \in 1..Len(transitions) :
          (/\ transitions[i].from_phase = transitions[j].from_phase
           /\ transitions[i].to_phase = transitions[j].to_phase)
             => transitions[i].valid = transitions[j].valid

\* INIT to AUTH_PENDING logged once and END to DAY twice
C14_Witness ==
    /\ Len(transitions) = 3
    /\ <<transitions[1].from_phase, transitions[1].to_phase, transitions[1].valid>>
          = <<"INIT", "AUTH_PENDING", TRUE>>
    /\ \A i \in {2, 3} :
          <<transitions[i].from_phase, transitions[i].to_phase, transitions[i].valid>>
             = <<"END", "DAY", FALSE>>

\* C15: every trace call, whatever the current phase and whether the transition is
\* valid, appends the one transition it returns, which has the phases and the label of
\* the call, and sets the current phase to its to-phase; and every call of any method
\* leaves the current phase the to-phase of the last logged transition, or INIT, as
\* the tracer is constructed, while the log is empty.
C15_ObserverNotEnforcer ==
    [][/\ current_phase' = IF transitions' = <<>> THEN "INIT"
                           ELSE transitions'[Len(transitions')].to_phase
       /\ (pc' = "tracer_returned" /\ tracer_result'.call = "trace")
             => /\ transitions' = Append(transitions, tracer_result'.returned)
                /\ current_phase' = tracer_result'.returned.to_phase
                /\ <<tracer_result'.returned.from_phase, tracer_result'.returned.to_phase,
                     tracer_result'.returned.packet_type>> \in TraceInputs]_vars

\* an invalid transition from END was traced while the current phase was AUTH_PENDING
C15_Witness ==
    /\ (pc = "tracer_returned" /\ tracer_result.call = "trace")
    /\ Len(transitions) = 2
    /\ transitions[1].to_phase = "AUTH_PENDING"
    /\ tracer_result.returned.from_phase = "END"
    /\ ~tracer_result.returned.valid
    /\ current_phase = "DAY"

\* C16: what detect_race_conditions returns has, in log order, one
\* INVALID_TRANSITION_ACCEPTED anomaly of severity HIGH for each logged transition
\* whose validity is false, with its from-phase, to-phase, label and timestamp, and no
\* other anomaly of that type.
C16_OneAnomalyPerInvalidTransition ==
    (pc = "tracer_returned" /\ tracer_result.call = "detect_race_conditions") =>
        LET IsInvalid(t) == ~t.valid
            invalid == SelectSeq(transitions, IsInvalid)
            IsOfType(anomaly) == anomaly.type = "INVALID_TRANSITION_ACCEPTED"
            anomalies == SelectSeq(tracer_result.returned, IsOfType)
        IN  /\ Len(anomalies) = Len(invalid)
            /\ \A k \in 1..Len(anomalies) :
                  /\ anomalies[k].severity = "HIGH"
                  /\ anomalies[k].from_phase = invalid[k].from_phase
                  /\ anomalies[k].to_phase = invalid[k].to_phase
                  /\ anomalies[k].packet_type = invalid[k].packet_type
                  /\ anomalies[k].timestamp = invalid[k].timestamp

\* two invalid transitions and a valid one between them: two anomalies
C16_Witness ==
    /\ (pc = "tracer_returned" /\ tracer_result.call = "detect_race_conditions")
    /\ Len(transitions) = 3
    /\ ~transitions[1].valid /\ transitions[2].valid /\ ~transitions[3].valid
    /\ Cardinality({k \in 1..Len(tracer_result.returned) :
                       tracer_result.returned[k].type = "INVALID_TRANSITION_ACCEPTED"}) = 2

\* C17: the number of RAPID_TRANSITION anomalies in what detect_race_conditions
\* returns is the number of pairs of consecutive log entries, in append order, whose
\* timestamps in milliseconds, the later entry's minus the earlier entry's, are less
\* than 50 apart; each has severity MEDIUM; two entries 10 ms apart give one, two
\* entries 200 ms apart none.
C17_RapidTransitionCount ==
    (pc = "tracer_returned" /\ tracer_result.call = "detect_race_conditions") =>
        LET IsOfType(anomaly) == anomaly.type = "RAPID_TRANSITION"
            anomalies == SelectSeq(tracer_result.returned, IsOfType)
            Gap(i) == transitions[i + 1].timestamp - transitions[i].timestamp
        IN  /\ Len(anomalies) = Cardinality({i \in 1..(Len(transitions) - 1) : Gap(i) < 50})
            /\ \A k \in 1..Len(anomalies) : anomalies[k].severity = "MEDIUM"
            /\ (Len(transitions) = 2 /\ Gap(1) = 10) => Len(anomalies) = 1
            /\ (Len(transitions) = 2 /\ Gap(1) = 200) => Len(anomalies) = 0

\* entries 10 ms and then 50 ms apart: one anomaly, for the first pair
C17_Witness ==
    /\ (pc = "tracer_returned" /\ tracer_result.call = "detect_race_conditions")
    /\ Len(transitions) = 3
    /\ transitions[2].timestamp - transitions[1].timestamp = 10
    /\ transitions[3].timestamp - transitions[2].timestamp = 50
    /\ \E k \in 1..Len(tracer_result.returned) :
          /\ tracer_result.returned[k].type = "RAPID_TRANSITION"
          /\ tracer_result.returned[k].time_diff_ms = 10
          /\ \A n \in 1..Len(tracer_result.returned) :
                tracer_result.returned[n].type = "RAPID_TRANSITION" => n = k

\* C18: the number of PHASE_LOOP anomalies in what detect_race_conditions returns is
\* the number of windows of three consecutive log entries in which the phase leaves A
\* for B and returns to A, that is, in which two consecutive entries are A to B and B
\* to A.
C18_PhaseLoopPerCycle ==
    (pc = "tracer_returned" /\ tracer_result.call = "detect_race_conditions") =>
        LET Back(i) == /\ transitions[i].to_phase = transitions[i + 1].from_phase
                       /\ transitions[i + 1].to_phase = transitions[i].from_phase
            IsOfType(anomaly) == anomaly.type = "PHASE_LOOP"
        IN  Len(SelectSeq(tracer_result.returned, IsOfType))
               = Cardinality({i \in 1..(Len(transitions) - 2) : Back(i) \/ Back(i + 1)})

\* C19: a check_packet_validity call returns false exactly when the label is in the
\* denylist of the phase, so true for every label in AUTH_COMPLETE, DAY, NIGHT, END and
\* DEAD, which have no denylist; and the call leaves the log, the list of invalid
\* transitions and the current phase as they were.
C19_DenylistOnly ==
    [][(pc' = "tracer_returned" /\ tracer_result'.call = "check_packet_validity")
          => LET phase == tracer_result'.phase
                 denylist ==
                     IF phase \in DOMAIN PhaseRestrictedPackets
                     THEN {PhaseRestrictedPackets[phase][k] :
                              k \in 1..Len(PhaseRestrictedPackets[phase])}
                     ELSE {}
             IN  /\ tracer_result'.returned = (tracer_result'.packet_type \notin denylist)
                 /\ phase \in {"AUTH_COMPLETE", "DAY", "NIGHT", "END", "DEAD"}
                       => tracer_result'.returned
                 /\ UNCHANGED <<transitions, invalid_transitions, current_phase>>]_vars

\* MOVEMENT is refused for VOTING while the tracer is in DAY after two transitions
C19_Witness ==
    /\ (pc = "tracer_returned" /\ tracer_result.call = "check_packet_validity")
    /\ tracer_result.phase = "VOTING"
    /\ tracer_result.packet_type = "MOVEMENT"
    /\ ~tracer_result.returned
    /\ current_phase = "DAY"
    /\ Len(transitions) = 2

\* C20: whatever method of the tracer is called, the log after the call begins with the
\* log before it: no entry is removed, moved or changed in any field.
C20_AppendOnly ==
    [][/\ Len(transitions') >= Len(transitions)
       /\ SubSeq(transitions', 1, Len(transitions)) = transitions]_vars

\* the log at its longest, its first entries valid and the last invalid, after
\* simulate_race_condition_test has appended to it
C20_Witness ==
    /\ (pc = "tracer_returned" /\ tracer_result.call = "simulate_race_condition_test")
    /\ tracer_result.scenario = "auth_during_game"
    /\ Len(transitions) = MaxTransitions
    /\ transitions[1].valid
    /\ ~transitions[Len(transitions)].valid

\* C21: constructing the fuzzer never fails on a bad schema source: once the constructor
\* has run on a file that is missing or is not parsable, the registry is the built-in
\* one, holding the movement packet "0x01" and the chat packet "0x03".
C21_FallbackOnBadSource ==
    (pc # "fuzzer_call" /\ packet_structures_file.file \in {"missing", "malformed"})
        => /\ packet_definitions = Return(MinimalDefinitions)
           /\ {Id01, Id03} \subseteq DOMAIN packet_definitions.val

\* the parts of a raw chat packet laid out as VarInt(3), a 16-byte identifier, a VarInt
\* length L, L bytes of text and an 8-byte timestamp; None for any other bytes
ChatLayout(raw) ==
    LET len == VarIntDecode(raw, 17)
    IN  IF Len(raw) < 18 \/ raw[1] # CHAT \/ len.st # "return" THEN None
        ELSE LET L == IndexOf(len.val[1])
                 off == len.val[2]
             IN  IF off + L + 8 > Len(raw) THEN None
                 ELSE [id |-> SubSeq(raw, 2, 17),
                       text |-> SubSeq(raw, off + 1, off + L),
                       timestamp |-> SubSeq(raw, off + L + 1, off + L + 8)]

\* C22: a well-formed chat packet, parsed and decoded, gives a result of type CHAT whose
\* message is the text of its L bytes (the message encodes back to those bytes), whose
\* player identifier is the hexadecimal form of the 16 bytes, and whose timestamp is the
\* number in the 8 bytes after the message.
C22_ChatDecodes ==
    (/\ pc = "decode_done"
     /\ hp_packet_id # None
     /\ ChatLayout(raw_data) # None
     /\ Utf8Decode(ChatLayout(raw_data).text).st = "return")
        => LET parts == ChatLayout(raw_data)
           IN  /\ hp_result.st = "return"
               /\ hp_result.val.type = "CHAT"
               /\ hp_result.val.message.t = "str"
               /\ Utf8Encode(hp_result.val.message.val) = Return(parts.text)
               /\ hp_result.val.player_id = BytesHex(parts.id)
               /\ hp_result.val.timestamp = UnpackUInt(parts.timestamp)

\* the chat packet of test_decoder.py has been decoded to "Hello World"
C22_Witness ==
    /\ pc = "decode_done"
    /\ hp_packet_id # None
    /\ ChatLayout(raw_data) # None
    /\ Len(ChatLayout(raw_data).text) = 11
    /\ hp_result.st = "return"
    /\ hp_result.val.message = PyStr(HelloWorld)

\* C23: the fuzz sequence is finite: whatever the base field-map holds, no next() on a
\* generator of fuzz_packet runs for ever, and a generator yields at most N x K
\* elements, N the number of fields of the definition and K the number of kinds.
C23_FuzzSequenceFinite ==
    /\ pc # "fuzz_diverged"
    /\ fuzz_calls > 0 =>
           LET definition == GetPacketDefinition(fuzz_packet_id)
               N == IF definition = None THEN 0 ELSE Len(definition.fields)
               K == Len(MutationsOrDefault(mutations))
           IN  Len(yielded) <= N * K

\* C24: decoding a length-prefixed string fails whenever fewer bytes remain in the
\* payload than its VarInt length announces: the decode call on a chat packet or on a
\* game-phase-change packet whose string is cut short ends in an exception.
C24_TruncatedStringRaises ==
    (/\ pc = "decode_done"
     /\ hp_packet_id \in {PyInt(CHAT), PyInt(GAME_PHASE_CHANGE)})
        => LET at == IF hp_packet_id = PyInt(CHAT) THEN 16 ELSE 5
               len == VarIntDecode(hp_payload, at)
           IN  (/\ Len(hp_payload) >= at
                /\ len.st = "return"
                /\ Len(hp_payload) - len.val[2] < IndexOf(len.val[1]))
                   => hp_result.st = "raise"

\* C25: a scenario of simulate_race_condition_test returns "VULNERABILITY" when the
\* transition it has recorded is invalid under the table of legal transitions or the
\* packet type it checks is on the denylist of the phase, and "SECURE" otherwise.
C25_VulnerabilityMeansViolation ==
    (/\ pc = "tracer_returned"
     /\ tracer_result.call = "simulate_race_condition_test"
     /\ tracer_result.scenario # "other")
        => LET last == transitions[Len(transitions)]
               Denylisted(phase, packet_type) ==
                   /\ phase \in DOMAIN PhaseRestrictedPackets
                   /\ \E i \in 1..Len(PhaseRestrictedPackets[phase]) :
                          PhaseRestrictedPackets[phase][i] = packet_type
               violates ==
                   CASE tracer_result.scenario = "auth_during_game" ->
                            ~IsValidTransition(last.from_phase, last.to_phase)
                     [] tracer_result.scenario = "block_during_voting" ->
                            Denylisted("VOTING", "BLOCK_INTERACTION")
                     [] OTHER ->
                            \/ ~IsValidTransition(last.from_phase, last.to_phase)
                            \/ Denylisted("VOTING", "MOVEMENT")
           IN  tracer_result.returned = IF violates THEN "VULNERABILITY" ELSE "SECURE"

\* C26: the encoder and the decoder agree on the chat layout: when build_packet("0x03")
\* has built a packet from a field-map with a message string and a timestamp of 64 bits,
\* parse and decode of the built bytes return that message and that timestamp.
C26_ChatRoundTrip ==
    (/\ pc = "decode_done"
     /\ hp_packet_id # None
     /\ packet # None
     /\ packet.st = "return"
     /\ packet_id = Id03
     /\ {"message", "timestamp"} \subseteq DOMAIN field_values
     /\ field_values.message.t = "str"
     /\ InRange(field_values.timestamp, 64))
        => /\ hp_result.st = "return"
           /\ hp_result.val.type = "CHAT"
           /\ hp_result.val.message = field_values.message
           /\ hp_result.val.timestamp = field_values.timestamp

\* C27: an identifier field occupies 16 bytes on the wire: whatever value the field-map
\* of a movement packet gives playerID, _encode_field returns 16 bytes for it, and the
\* packet build_packet returns has the length of every movement packet, 54 bytes.
C27_IdentifierIs16Bytes ==
    (pc = "built" /\ packet_id = Id01 /\ "playerID" \in DOMAIN field_values)
        => LET id == EncodeField("UUID", field_values.playerID)
           IN  /\ id.st = "return"
               /\ Len(id.val) = 16
               /\ packet.st = "return" => Len(packet.val) = 54

\* C28: mutations are produced one per request: a fuzz_packet call creates a generator
\* without generating anything, each next() on it adds to mutations_generated exactly
\* the one element it yields (nothing when it yields none), and after every step the
\* counter is the number of elements all generators of the fuzzer have yielded.
C28_OnePerRequest ==
    [][/\ mutations_generated' = total_yielded'
       /\ IF pc' = "fuzz_created"
          THEN mutations_generated' = mutations_generated /\ yielded' = <<>>
          ELSE /\ mutations_generated' - mutations_generated = Len(yielded') - Len(yielded)
               /\ Len(yielded') - Len(yielded) \in {0, 1}]_vars

\* a second generator has been left after its first element, the first one after some
C28_Witness ==
    /\ pc = "fuzz_suspended"
    /\ fuzz_calls = 2
    /\ Len(yielded) = 1
    /\ total_yielded > 1
    /\ mutations_generated = total_yielded

\* C29: after every step invalid_transitions is the subsequence of transitions whose
\* validity is false, in the same order; transitions grows by one with every trace call,
\* those made inside simulate_race_condition_test included, and with no other call; and
\* get_statistics reports the two lengths, invalid_transitions <= total_transitions.
C29_InvalidIsSubsequence ==
    [][/\ invalid_transitions' = SelectSeq(transitions', LAMBDA t : ~t.valid)
       /\ Len(transitions') - Len(transitions) =
              IF /\ pc' = "tracer_returned"
                 /\ \/ tracer_result'.call = "trace"
                    \/ /\ tracer_result'.call = "simulate_race_condition_test"
                       /\ tracer_result'.scenario
                              \in {"auth_during_game", "movement_during_transition"}
              THEN 1 ELSE 0
       /\ (pc' = "tracer_returned" /\ tracer_result'.call = "get_statistics")
              => /\ tracer_result'.returned.total_transitions = Len(transitions')
                 /\ tracer_result'.returned.invalid_transitions = Len(invalid_transitions')
                 /\ tracer_result'.returned.invalid_transitions
                        <= tracer_result'.returned.total_transitions]_vars

\* get_statistics has reported a log of a valid transition, an invalid one and the
\* invalid one of the scenario auth_during_game
C29_Witness ==
    /\ pc = "tracer_returned"
    /\ tracer_result.call = "get_statistics"
    /\ tracer_result.returned.total_transitions = 3
    /\ tracer_result.returned.invalid_transitions = 2
    /\ \E i \in 1..3 : transitions[i].packet_type = "AUTH_RESPONSE"
    /\ \E i \in 1..3 : transitions[i].valid

\* C30: VarInt.encode terminates and returns at least one byte for every integer it is
\* called with, the negative ones included.
C30_EncodeTerminates ==
    pc = "encoded" => (encoded.st = "return" /\ Len(encoded.val) >= 1)
====
